---- MODULE Spec2Model ----
(***************************************************************************)
(* Substance2Remix: the retrying HTTP client (core.py and remix_api.py),   *)
(* the background Worker (async_utils.py), the batch commit and the push   *)
(* pipeline (core.py), modelled as state machines.                         *)
(***************************************************************************)
EXTENDS Integers, Sequences, FiniteSets, TLC

(***************************************************************************)
(* Bounds of the model                                                     *)
(***************************************************************************)
MaxRetries == 3

None == "None"

(***************************************************************************)
(* Part 1.  The HTTP client                                                *)
(*   core.make_remix_request_with_retries  ("core")                        *)
(*   RemixAPIClient.make_request           ("client")                      *)
(***************************************************************************)
VARIABLES impl, libAvailable, urlOk, retries, hpc, attempt, history,
          lastError, sleeps, result, raised

\* State of a Worker (async_utils.py)
VARIABLES wpc, fnParams, injected, events, suppliedKwargs, kwargs

\* State of one batch commit (update_remix_textures_batch,
\* RemixAPIClient.update_textures_batch)
VARIABLES bimpl, bindings, bProjectDir, bpc, bPuts, bResult, bAnswered

\* State of one push run (handle_push_to_remix)
VARIABLES ppc, dirState, exportedFiles, exportedMap, ingestIdx, ingestErrors,
          ingestedMap, existingBindings, mappedAttrs, updatedTypes, allErrors,
          requestLog, summaries, saveRequested, commitOutcome

\* State of one definition-path derivation (_extract_definition_path)
VARIABLES dimpl, primPath, dpc, definitionPath

\* State of one pull (handle_pull_from_remix with
\* get_selected_remix_asset_details, or RemixAPIClient.get_selected_asset_details)
VARIABLES qimpl, qpc, selection, materialPrim, meshPrim, toQuery, queried,
          pathsAnswer, meshFile, contextPath, resolvedPath, rootsTried, pullRequests, pullError
\* The Painter project that is open, the RTXRemixConnectorLink metadata of each
\* project, both as they were when the pull started, and what the last push
\* or import read
VARIABLES project, links, projectAtStart, linksAtStart, lastRun

\* State of one selection of the ingest output path (the parsing of the
\* job result in ingest_texture_to_remix / RemixAPIClient.ingest_texture)
VARIABLES simpl, sPbr, textureFile, outputPaths, spc, ingestedPath, onDisk, ingestReturn

\* State of the two consecutive layer saves (save_remix_layer /
\* RemixAPIClient.save_layer)
VARIABLES vimpl, layerId, saveResults, saveLog

\* State of the plugin's menu and of the threads that run its handlers
\* (start_plugin / close_plugin and the QAction wiring)
VARIABLES menuActions, uiThread, submitted, callLog, triggers

\* State of one run that reads the shared settings (PLUGIN_SETTINGS / settings_getter)
VARIABLES liveSettings, startSettings, running, runSteps, runLog

\* State of one ingest call as far as its requests go (ingest_texture_to_remix / RemixAPIClient.ingest_texture with the request loop they call)
VARIABLES gimpl, gpc, gPosts, gReturn

httpVars == <<impl, libAvailable, urlOk, retries, hpc, attempt, history,
              lastError, sleeps, result, raised>>

workerVars == <<wpc, fnParams, injected, events, suppliedKwargs, kwargs>>

batchVars == <<bimpl, bindings, bProjectDir, bpc, bPuts, bResult, bAnswered>>

pushVars == <<ppc, dirState, exportedFiles, exportedMap, ingestIdx, ingestErrors,
              ingestedMap, existingBindings, mappedAttrs, updatedTypes, allErrors,
              requestLog, summaries, saveRequested, commitOutcome>>

defPathVars == <<dimpl, primPath, dpc, definitionPath>>

\* The variables of the parts that follow the push run.
pullVars == <<qimpl, qpc, selection, materialPrim, meshPrim, toQuery, queried,
              pathsAnswer, meshFile, contextPath, resolvedPath, rootsTried, pullRequests, pullError,
              project, links, projectAtStart, linksAtStart, lastRun>>

selectVars == <<simpl, sPbr, textureFile, outputPaths, spc, ingestedPath, onDisk, ingestReturn>>

saveVars == <<vimpl, layerId, saveResults, saveLog>>

uiVars == <<menuActions, uiThread, submitted, callLog, triggers>>

settingsVars == <<liveSettings, startSettings, running, runSteps, runLog>>

submitVars == <<gimpl, gpc, gPosts, gReturn>>

laterVars == <<defPathVars, pullVars, selectVars, saveVars, uiVars, settingsVars, submitVars>>

\* No HTTP call is in progress.
HttpIdle ==
    /\ impl = "core" /\ libAvailable = TRUE /\ urlOk = TRUE /\ retries = 0
    /\ hpc = "idle" /\ attempt = 1 /\ history = << >>
    /\ lastError = [msg |-> "None", status |-> 0, detail |-> ""]
    /\ sleeps = << >>
    /\ result = [success |-> FALSE, status_code |-> 0, data |-> "None",
                 error |-> [msg |-> "None", status |-> 0, detail |-> ""]]
    /\ raised = FALSE

\* No Worker exists.
WorkerIdle ==
    /\ wpc = "idle" /\ fnParams = {} /\ injected = {} /\ events = << >>
    /\ suppliedKwargs = {} /\ kwargs = {}

\* No batch commit is in progress.
BatchIdle ==
    /\ bimpl = "core" /\ bindings = << >> /\ bProjectDir = "" /\ bpc = "idle"
    /\ bPuts = << >>
    /\ bResult = [ok |-> FALSE, text |-> "None", status |-> 0, pathErrors |-> 0,
                  error |-> [msg |-> "None", status |-> 0, detail |-> ""]]
    /\ bAnswered = 0

\* No push run is in progress.
PushIdle ==
    /\ ppc = "idle" /\ dirState = "dir" /\ exportedFiles = << >>
    /\ exportedMap = << >> /\ ingestIdx = 0 /\ ingestErrors = << >>
    /\ ingestedMap = << >> /\ existingBindings = << >> /\ mappedAttrs = << >>
    /\ updatedTypes = << >> /\ allErrors = << >> /\ requestLog = << >>
    /\ summaries = << >> /\ saveRequested = FALSE /\ commitOutcome = "none"

\* No definition-path derivation is in progress.
DefPathIdle ==
    /\ dimpl = "core" /\ primPath = << >> /\ dpc = "idle" /\ definitionPath = << >>

\* No pull is in progress.
PullIdle ==
    /\ qimpl = "core" /\ qpc = "idle" /\ selection = << >> /\ materialPrim = << >>
    /\ meshPrim = << >> /\ toQuery = << >> /\ queried = << >> /\ pathsAnswer = << >>
    /\ meshFile = [abs |-> FALSE, segs |-> << >>]
    /\ contextPath = [abs |-> FALSE, segs |-> << >>]
    /\ resolvedPath = [abs |-> FALSE, segs |-> << >>]
    /\ rootsTried = << >> /\ pullRequests = << >> /\ pullError = ""
    /\ project = "none" /\ projectAtStart = "none" /\ lastRun = <<"none", "">>
    /\ links = [p \in {"old", "new"} |->
                  [material |-> << >>, original |-> [abs |-> FALSE, segs |-> << >>],
                   resolved |-> [abs |-> FALSE, segs |-> << >>]]]
    /\ linksAtStart = links

\* No job result is being parsed.
SelectIdle ==
    /\ simpl = "core" /\ sPbr = "albedo" /\ textureFile = << >> /\ outputPaths = << >>
    /\ spc = "idle" /\ ingestedPath = << >>
    /\ onDisk = {} /\ ingestReturn = [path |-> << >>, error |-> "None"]

\* No layer save has been asked for.
SaveIdle ==
    /\ vimpl = "core" /\ layerId = "" /\ saveResults = << >> /\ saveLog = << >>

\* The UI thread sits in the event loop.
InEventLoop == [handler |-> "", next |-> 0]

\* The plugin is not started.
UiIdle ==
    /\ menuActions = {} /\ uiThread = InEventLoop /\ submitted = << >>
    /\ callLog = << >> /\ triggers = 0

SettingsIdle ==
    /\ liveSettings = [api_base_url |-> "", remix_output_subfolder |-> ""]
    /\ startSettings = [api_base_url |-> "", remix_output_subfolder |-> ""]
    /\ running = FALSE /\ runSteps = 0 /\ runLog = << >>

SubmitIdle ==
    /\ gimpl = "core" /\ gpc = "idle" /\ gPosts = << >> /\ gReturn = "none"

LaterIdle == DefPathIdle /\ PullIdle /\ SelectIdle /\ SaveIdle /\ UiIdle /\ SettingsIdle /\ SubmitIdle

nonHttpVars == <<workerVars, batchVars, pushVars, laterVars>>

nonWorkerVars == <<httpVars, batchVars, pushVars, laterVars>>

nonBatchVars == <<httpVars, workerVars, pushVars, laterVars>>

nonPushVars == <<httpVars, workerVars, batchVars, laterVars>>

Impls == {"core", "client"}

\* Status codes the server may answer with.
Statuses == {200, 299, 300, 404, 429, 500}

\* What the body of a response decodes to: JSON, text that is not JSON
\* (response.json() raises JSONDecodeError), or no content at all.
Bodies == {"json", "text", "empty"}

\* Exceptions requests.request may raise; all derive from RequestException.
ExcKinds == {"Timeout", "ConnectionError", "RequestException"}

Responses == [kind : {"response"}, status : Statuses, body : Bodies]

Failures == [kind : ExcKinds, status : {0}, body : {"empty"}]

\* The outcome of one HTTP attempt.
Outcomes == Responses \cup Failures

\* isinstance(e, requests.exceptions.RequestException)
IsRequestException(k) == k \in {"Timeout", "ConnectionError", "RequestException"}

IsSuccessStatusUpTo300(s) == 200 <= s /\ s <= 300

\* 200 <= response.status_code < 300
IsSuccessStatus(s) == 200 <= s /\ s < 300

\* 400 <= response.status_code < 500
IsClientError(s) == 400 <= s /\ s < 500

\* response_data: the parsed JSON, or None when the body is empty or not JSON
ResponseData(o) == IF o.body = "json" THEN "json" ELSE None

\* response_text / response.text as far as the result uses it
ResponseText(o) == IF o.body = "text" THEN "text" ELSE ""

\* response_data if response_data is not None else response_text
DataOrText(o) == IF ResponseData(o) # None THEN ResponseData(o) ELSE ResponseText(o)

\* error: None (no error message)
NoError == [msg |-> "None", status |-> 0, detail |-> ""]

ApiResult(ok, code, data, err) ==
    [success |-> ok, status_code |-> code, data |-> data, error |-> err]

\* core: f"{error_prefix}: {details_str if details_str else '<No Details>'}"
CoreStatusError(o) ==
    [msg |-> "Remix API Error", status |-> o.status, detail |-> DataOrText(o)]

\* core: the message of each except clause
CoreExceptionError(k) ==
    CASE k = "Timeout" -> [msg |-> "Request Timeout", status |-> 0, detail |-> ""]
      [] k = "ConnectionError" -> [msg |-> "Connection Error", status |-> 0, detail |-> ""]
      [] OTHER -> [msg |-> "Request Exception", status |-> 0, detail |-> k]

\* client: f"API Error (Status: {response.status_code}): {error_details}"
ClientStatusError(o) ==
    [msg |-> "API Error", status |-> o.status, detail |-> DataOrText(o)]

\* client: f"Request Exception: {e}"
ClientExceptionError(k) == [msg |-> "Request Exception", status |-> 0, detail |-> k]

CoreDefaultError == [msg |-> "All attempts failed", status |-> 0, detail |-> ""]

ClientDefaultError == [msg |-> "Request failed after multiple retries.", status |-> 0, detail |-> ""]

\* The value of result before the call has returned.
NoResult == ApiResult(FALSE, 0, None, NoError)

LibraryError == [msg |-> "requests library not available", status |-> 0, detail |-> ""]

UrlError == [msg |-> "URL construction error.", status |-> 0, detail |-> ""]

CoreHandlerMissesTimeout(k) ==
    CASE k = "ConnectionError" -> "connection"
      [] k = "RequestException" -> "request"
      [] OTHER -> "uncaught"

\* The except clause of core's loop that catches an exception of kind k.
CoreHandler(k) ==
    CASE k = "Timeout" -> "timeout"
      [] k = "ConnectionError" -> "connection"
      [] IsRequestException(k) -> "request"
      [] OTHER -> "uncaught"

\* The except clause of the client's loop that catches an exception of kind k.
ClientHandler(k) == IF IsRequestException(k) THEN "request" ELSE "uncaught"

HttpInit ==
    /\ impl \in Impls
    /\ libAvailable \in BOOLEAN
    /\ urlOk \in BOOLEAN
    /\ retries \in -1 .. MaxRetries
    /\ hpc = "start"
    /\ attempt = 1
    /\ history = << >>
    /\ lastError = NoError
    /\ sleeps = << >>
    /\ result = NoResult
    /\ raised = FALSE
    /\ WorkerIdle /\ BatchIdle /\ PushIdle /\ LaterIdle

Return(r) ==
    /\ result' = r
    /\ hpc' = "done"

CoreExhaustedKeepsDefault(err) == CoreDefaultError

\* core, after the loop: last_error_message or f"All {retries} attempts failed."
CoreExhaustedError(err) == IF err # NoError THEN err ELSE CoreDefaultError

\* The return that follows the loop, with last_error_message = err.
HasIterationOneMore(a, n) == a <= n + 1

\* "for attempt in range(1, retries + 1)": the loop has an iteration for
\* the attempt number a (a >= 1) when a <= retries.
HasIteration(a, n) == a <= n

Exhausted(err) ==
    IF impl = "core"
      THEN Return(ApiResult(FALSE, 0, None, CoreExhaustedError(err)))
      ELSE Return(ApiResult(FALSE, 0, None, err))

\* The statements before the loop: dependency check, URL construction,
\* last_error_message initialised; with retries <= 0 the loop body never
\* runs and the return after the loop follows at once.
HttpBegin ==
    /\ hpc = "start"
    /\ IF ~libAvailable
         THEN Return(ApiResult(FALSE, 0, None, LibraryError)) /\ UNCHANGED lastError
         ELSE IF ~urlOk
           THEN Return(ApiResult(FALSE, 0, None, UrlError)) /\ UNCHANGED lastError
           ELSE /\ lastError' = IF impl = "core" THEN NoError ELSE ClientDefaultError
                /\ IF ~HasIteration(1, retries)
                     THEN Exhausted(lastError')
                     ELSE hpc' = "loop" /\ UNCHANGED result
    /\ UNCHANGED <<impl, libAvailable, urlOk, retries, attempt, history, sleeps, raised>>
    /\ UNCHANGED nonHttpVars

\* End of a loop iteration that did not return: sleep and go to the next
\* attempt if one is left, otherwise leave the loop and return.
NextAttempt(delayFactor) ==
    IF HasIteration(attempt + 1, retries)
      THEN /\ sleeps' = Append(sleeps, delayFactor)
           /\ attempt' = attempt + 1
           /\ UNCHANGED <<result, hpc>>
      ELSE /\ Exhausted(lastError')
           /\ UNCHANGED <<sleeps, attempt>>

\* One iteration of the loop of make_remix_request_with_retries.
CoreAttempt(o) ==
    /\ impl = "core"
    /\ hpc = "loop"
    /\ HasIteration(attempt, retries)
    /\ history' = Append(history, o)
    /\ IF o.kind = "response"
         THEN IF IsSuccessStatus(o.status)
                THEN /\ Return(ApiResult(TRUE, o.status, DataOrText(o), NoError))
                     /\ UNCHANGED <<lastError, attempt, sleeps, raised>>
                ELSE /\ lastError' = CoreStatusError(o)
                     /\ IF IsClientError(o.status)
                          THEN /\ Return(ApiResult(FALSE, o.status, DataOrText(o), lastError'))
                               /\ UNCHANGED <<attempt, sleeps>>
                          ELSE NextAttempt(1)
                     /\ UNCHANGED raised
         ELSE LET h == CoreHandler(o.kind) IN
              IF h = "uncaught"
                THEN /\ raised' = TRUE
                     /\ hpc' = "done"
                     /\ UNCHANGED <<lastError, attempt, sleeps, result>>
                ELSE /\ lastError' = CoreExceptionError(o.kind)
                     /\ UNCHANGED raised
                     /\ IF attempt = retries
                          THEN /\ Return(ApiResult(FALSE, 0, None, lastError'))
                               /\ UNCHANGED <<attempt, sleeps>>
                          ELSE NextAttempt(IF h = "connection" THEN 2 ELSE 1)
    /\ UNCHANGED <<impl, libAvailable, urlOk, retries>>
    /\ UNCHANGED nonHttpVars

\* One iteration of the loop of RemixAPIClient.make_request.
ClientAttempt(o) ==
    /\ impl = "client"
    /\ hpc = "loop"
    /\ HasIteration(attempt, retries)
    /\ history' = Append(history, o)
    /\ IF o.kind = "response" /\ IsSuccessStatus(o.status)
         THEN /\ Return(ApiResult(TRUE, o.status, DataOrText(o), NoError))
              /\ UNCHANGED <<lastError, attempt, sleeps, raised>>
         ELSE IF o.kind # "response" /\ ClientHandler(o.kind) = "uncaught"
           THEN /\ raised' = TRUE
                /\ hpc' = "done"
                /\ UNCHANGED <<lastError, attempt, sleeps, result>>
           ELSE /\ lastError' = IF o.kind = "response" THEN ClientStatusError(o)
                                ELSE ClientExceptionError(o.kind)
                /\ NextAttempt(1)
                /\ UNCHANGED raised
    /\ UNCHANGED <<impl, libAvailable, urlOk, retries>>
    /\ UNCHANGED nonHttpVars

HttpNext ==
    \/ HttpBegin
    \/ \E o \in Outcomes : CoreAttempt(o)
    \/ \E o \in Outcomes : ClientAttempt(o)

vars == <<httpVars, workerVars, batchVars, pushVars, laterVars>>

Spec == HttpInit /\ [][HttpNext]_vars

(***************************************************************************)
(* Properties of the HTTP client                                           *)
(***************************************************************************)
Returned == hpc = "done" /\ ~raised

LastOutcome == history[Len(history)]

Is5xx(s) == 500 <= s /\ s < 600

\* An attempt that ended in a timeout, a connection failure or a 5xx response.
RetryableOutcome(o) ==
    \/ o.kind \in {"Timeout", "ConnectionError"}
    \/ o.kind = "response" /\ Is5xx(o.status)

\* The error message the implementation builds for the outcome of an attempt.
ObservedError(o) ==
    IF o.kind = "response"
      THEN IF impl = "core" THEN CoreStatusError(o) ELSE ClientStatusError(o)
      ELSE IF impl = "core" THEN CoreExceptionError(o.kind) ELSE ClientExceptionError(o.kind)

\* C1 as stated: a returned result has success = TRUE if and only if its
\* statusCode lies in [200,299), i.e. 200 <= statusCode < 299.
C1_SuccessIffBelow299 ==
    Returned => (result.success <=> (200 <= result.status_code /\ result.status_code < 299))

\* C1 amended: a returned result has success = TRUE if and only if its
\* statusCode lies in [200,300), i.e. 200 <= statusCode <= 299.
C1_SuccessIff2xx ==
    Returned => (result.success <=> (200 <= result.status_code /\ result.status_code <= 299))

\* C1 witness: a call that returned success for a response with status 299.
C1_Witness299 ==
    Returned /\ result.success /\ result.status_code = 299 /\ history # << >>

\* C2: an attempt answered with a 4xx status other than 429 is the last
\* attempt of its call, and the call returns a failed result at once.
C2_ClientErrorEndsCall ==
    \A k \in 1 .. Len(history) :
        (history[k].kind = "response" /\ IsClientError(history[k].status)
            /\ history[k].status # 429)
        => (k = Len(history) /\ Returned /\ ~result.success)

\* C3: when every attempt ended in a timeout, a connection failure or a 5xx
\* response, the call returns only after `retries` attempts, with a failed
\* result carrying the error of the last attempt; a 2xx response on any
\* attempt ends the call at once with success.
C3_RetriesUntilExhausted ==
    /\ (Returned /\ history # << >> /\ \A k \in 1 .. Len(history) : RetryableOutcome(history[k]))
          => /\ Len(history) = retries
             /\ ~result.success
             /\ result.error = ObservedError(LastOutcome)
    /\ \A k \in 1 .. Len(history) :
          (history[k].kind = "response" /\ IsSuccessStatus(history[k].status))
          => (k = Len(history) /\ Returned /\ result.success)

\* C3 witness: a call of at least two attempts, all retryable, the last one
\* different from the first, that has returned.
C3_WitnessExhausted ==
    /\ Returned /\ retries >= 2 /\ Len(history) = retries
    /\ \A k \in 1 .. Len(history) : RetryableOutcome(history[k])
    /\ ObservedError(history[1]) # ObservedError(LastOutcome)

\* C38: a call never makes more attempts than `retries`, the first one
\* counted; with retries <= 0 it makes no attempt and returns a failed
\* result.
C38_AttemptsBounded ==
    /\ Len(history) <= (IF retries > 0 THEN retries ELSE 0)
    /\ attempt = Len(history) + (IF hpc = "done" /\ history # << >> THEN 0 ELSE 1)
    /\ (retries <= 0 /\ hpc = "done")
          => (history = << >> /\ ~raised /\ result # NoResult /\ ~result.success)

\* C38 witness: a call with a negative `retries` that got past the checks
\* before the loop and has returned.
C38_WitnessNoAttempt ==
    /\ retries < 0 /\ libAvailable /\ urlOk /\ Returned
    /\ history = << >> /\ ~result.success

\* C4: a 429 answer on an attempt that is not the last allowed one does not
\* end the call: the client goes on to another attempt.
C4_Retries429 ==
    \A k \in 1 .. Len(history) :
        (history[k].kind = "response" /\ history[k].status = 429 /\ k < retries)
        => ~(hpc = "done" /\ Len(history) = k)

MaxEvents == 3

\* Parameter names a pipeline function may declare; "kwargs" stands for a
\* **kwargs parameter (p.kind == p.VAR_KEYWORD).
ParamNames == {"progress_callback", "status_callback", "kwargs"}

\* 'progress_callback' in params or any(p.kind == p.VAR_KEYWORD ...)
InjectsProgress(params) == "progress_callback" \in params \/ "kwargs" \in params

\* 'status_callback' in params or any(p.kind == p.VAR_KEYWORD ...)
InjectsStatus(params) == "status_callback" \in params \/ "kwargs" \in params

\* The callbacks Worker.run adds to self.kwargs.
InjectedCallbacks(params) ==
    (IF InjectsProgress(params) THEN {"progress"} ELSE {})
      \cup (IF InjectsStatus(params) THEN {"status"} ELSE {})

OutcomeSignalsResultAfterError(fnRaised) ==
    IF fnRaised THEN <<"error", "result", "finished">> ELSE <<"result", "finished">>

\* try: result = fn(...)  except: error.emit(...)  else: result.emit(result)
\* finally: finished.emit()
OutcomeSignals(fnRaised) ==
    IF fnRaised THEN <<"error", "finished">> ELSE <<"result", "finished">>

\* The keyword arguments a caller may give to Worker(fn, **kwargs), as
\* <<name, value>> pairs.
SuppliedKwargsPool == {<<"material", "caller">>, <<"progress_callback", "caller">>}

InjectedKwargsEverything(supplied, callbacks) ==
    {pair \in supplied : pair[1] \notin {"progress_callback", "status_callback"}}
      \cup {<<"progress_callback", "emitter">>, <<"status_callback", "emitter">>}

\* self.kwargs after "self.kwargs['progress_callback'] = self.signals.progress"
\* and "self.kwargs['status_callback'] = self.signals.status" for the
\* callbacks that are injected
InjectedKwargs(supplied, callbacks) ==
    LET keys == {IF c = "progress" THEN "progress_callback" ELSE "status_callback" :
                    c \in callbacks}
    IN  {pair \in supplied : pair[1] \notin keys} \cup {<<k, "emitter">> : k \in keys}

WorkerInit ==
    /\ wpc = "queued"
    /\ fnParams \in SUBSET ParamNames
    /\ injected = {}
    /\ events = << >>
    /\ suppliedKwargs \in SUBSET SuppliedKwargsPool
    /\ kwargs = suppliedKwargs
    /\ HttpIdle /\ BatchIdle /\ PushIdle /\ LaterIdle

\* Worker.run up to the call of fn: inspect the signature, inject callbacks.
WorkerRunBegin ==
    /\ wpc = "queued"
    /\ injected' = InjectedCallbacks(fnParams)
    /\ kwargs' = InjectedKwargs(kwargs, InjectedCallbacks(fnParams))
    /\ wpc' = "running"
    /\ UNCHANGED <<fnParams, events, suppliedKwargs>>
    /\ UNCHANGED nonWorkerVars

\* The pipeline function calls one of the emitters it was given.
FnEmits(e) ==
    /\ wpc = "running"
    /\ e \in injected
    /\ Len(events) < MaxEvents
    /\ events' = Append(events, e)
    /\ UNCHANGED <<wpc, fnParams, injected, suppliedKwargs, kwargs>>
    /\ UNCHANGED nonWorkerVars

\* The pipeline function returns: the else and finally clauses run.
FnReturns ==
    /\ wpc = "running"
    /\ events' = events \o OutcomeSignals(FALSE)
    /\ wpc' = "done"
    /\ UNCHANGED <<fnParams, injected, suppliedKwargs, kwargs>>
    /\ UNCHANGED nonWorkerVars

\* The pipeline function raises: the except and finally clauses run.
FnRaises ==
    /\ wpc = "running"
    /\ events' = events \o OutcomeSignals(TRUE)
    /\ wpc' = "done"
    /\ UNCHANGED <<fnParams, injected, suppliedKwargs, kwargs>>
    /\ UNCHANGED nonWorkerVars

WorkerNext ==
    \/ WorkerRunBegin
    \/ \E e \in {"progress", "status"} : FnEmits(e)
    \/ FnReturns
    \/ FnRaises

WorkerSpec == WorkerInit /\ [][WorkerNext]_vars

(***************************************************************************)
(* Properties of Worker.run                                                *)
(***************************************************************************)
ReportEvents == {"progress", "status"}

\* C6: the events of a Worker are zero or more progress/status events, then
\* exactly one of result or error, then finished, which is the last event
\* and occurs once; before the run has ended only progress/status events
\* have been emitted.
C6_EventOrder ==
    LET n == Len(events) IN
    /\ wpc = "done" =>
         /\ n >= 2
         /\ events[n] = "finished"
         /\ events[n - 1] \in {"result", "error"}
         /\ \A i \in 1 .. n - 2 : events[i] \in ReportEvents
    /\ wpc # "done" => \A i \in 1 .. n : events[i] \in ReportEvents

\* C6 witness: a function given only a progress emitter reported progress
\* and then raised.
C6_WitnessRaised ==
    /\ wpc = "done" /\ injected = {"progress"}
    /\ Len(events) = 3 /\ events[1] = "progress" /\ events[2] = "error"

PassesEmitter(key) == <<key, "emitter">> \in kwargs

\* C22 as stated: the progress emitter is passed exactly when the function
\* declares a progress parameter, the status emitter exactly when it
\* declares a status parameter, and a function declaring neither is called
\* with the keyword arguments the caller supplied.
C22_InjectedIffDeclared ==
    wpc # "queued" =>
        /\ PassesEmitter("progress_callback") <=> "progress_callback" \in fnParams
        /\ PassesEmitter("status_callback") <=> "status_callback" \in fnParams
        /\ ("progress_callback" \notin fnParams /\ "status_callback" \notin fnParams)
              => kwargs = suppliedKwargs

\* C22 amended: a **kwargs parameter counts as declaring both; a function
\* with none of progress_callback, status_callback and **kwargs is called
\* with the keyword arguments the caller supplied.
C22_InjectedIffDeclaredOrVarKeyword ==
    wpc # "queued" =>
        /\ PassesEmitter("progress_callback")
              <=> ("progress_callback" \in fnParams \/ "kwargs" \in fnParams)
        /\ PassesEmitter("status_callback")
              <=> ("status_callback" \in fnParams \/ "kwargs" \in fnParams)
        /\ fnParams = {} => kwargs = suppliedKwargs

\* C22 witness: a function declaring only **kwargs ran with both emitters
\* next to the caller's own argument.
C22_WitnessVarKeyword ==
    /\ wpc = "done" /\ fnParams = {"kwargs"}
    /\ suppliedKwargs = {<<"material", "caller">>}
    /\ kwargs = {<<"material", "caller">>, <<"progress_callback", "emitter">>,
                 <<"status_callback", "emitter">>}

(***************************************************************************)
(* Part 3.  The batch commit                                               *)
(*   core.update_remix_textures_batch        ("core")                      *)
(*   RemixAPIClient.update_textures_batch    ("client")                    *)
(***************************************************************************)
MaxBindings == 2

\* An attribute path: `tail` is the text after its last ':' (NoColon when
\* the path has no ':'), `prim` everything before it, and `backslash` tells
\* whether the path is written with backslashes.
NoColon == "<no colon>"

Attr(prim, tail, bs) == [prim |-> prim, tail |-> tail, backslash |-> bs]

\* A file path: `file` is its text ("" for the empty string), `abs` is
\* os.path.isabs, `exists` is os.path.isfile, `fwd` tells whether it is
\* written with forward slashes only.
Path(file, abs, exists, fwd) == [file |-> file, abs |-> abs, exists |-> exists, fwd |-> fwd]

EmptyPath == Path("", FALSE, FALSE, TRUE)

\* target_usd_attr.replace('\\', '/')
NormAttr(a) == [a EXCEPT !.backslash = FALSE]

\* abs_copied_texture_path.replace(os.sep, '/')
ForwardSlashes(p) == [p EXCEPT !.fwd = TRUE]

\* os.path.isabs(path)
IsAbs(p) == p.abs

Binding(a, p) == [attr |-> a, path |-> p]

CoreAcceptsAnyPath(b) == TRUE

\* core: the binding is kept unless "not os.path.isabs(abs_copied_texture_path)"
CoreAccepts(b) == IsAbs(b.path)

\* client: the binding is kept unless
\* "not ingested_path or not os.path.isabs(ingested_path)"
ClientAccepts(b) == b.path.file # "" /\ IsAbs(b.path)

Accepts(im, b) == IF im = "core" THEN CoreAccepts(b) ELSE ClientAccepts(b)

\* The [attribute, path] pair appended to the payload for a kept binding.
PayloadPair(b) == Binding(NormAttr(b.attr), ForwardSlashes(b.path))

RECURSIVE PayloadOf(_, _)
\* update_payload_textures / payload_list: the kept bindings, in input order
PayloadOf(im, bs) ==
    IF bs = << >> THEN << >>
    ELSE (IF Accepts(im, Head(bs)) THEN <<PayloadPair(Head(bs))>> ELSE << >>)
           \o PayloadOf(im, Tail(bs))

RECURSIVE PathErrorCount(_, _)
\* len(path_processing_errors) / len(path_errors)
PathErrorCount(im, bs) ==
    IF bs = << >> THEN 0
    ELSE (IF Accepts(im, Head(bs)) THEN 0 ELSE 1) + PathErrorCount(im, Tail(bs))

\* The path errors the returned message lists.  core joins
\* path_processing_errors into every message it returns after the loop;
\* the client puts path_errors into "Success with warnings" only, and
\* returns "No valid paths." or the error of the PUT without them.
ListedPathErrors(im, bs, ok) ==
    IF im = "core" \/ ok THEN PathErrorCount(im, bs) ELSE 0

\* What a commit returns: ok, the fixed text of the message, the status
\* the message ends with ("(Status: n)", core only), the number of path
\* errors it lists and the error of the HTTP call it quotes.
BatchResult(ok, text, status, n) ==
    [ok |-> ok, text |-> text, status |-> status, pathErrors |-> n, error |-> NoError]

\* The result of a commit that returns before any request is sent, or
\* NoLocalResult when the PUT has to be sent.
NoLocalResult == BatchResult(FALSE, "send PUT", 0, 0)

LocalBatchResult(im, bs, dir) ==
    IF bs = << >>
      THEN BatchResult(TRUE, "No textures to update.", 0, 0)
    ELSE IF im = "core" /\ dir = ""
      THEN BatchResult(FALSE, "Project output dir missing.", 0, 0)
    ELSE IF PayloadOf(im, bs) = << >>
      THEN BatchResult(FALSE, IF im = "core" THEN "Path processing failed for all entries."
                                             ELSE "No valid paths.",
                       0, ListedPathErrors(im, bs, FALSE))
    ELSE NoLocalResult

\* What the HTTP client can return to a caller: success, or a failure whose
\* status_code is 0 or (core only) the 4xx status of the answer.
\* `answered` is the status of the last answer the server gave (0 when the
\* last attempt got none); `error` is last_error_message.  core returns a
\* 4xx answer at once, with its status; after a 5xx answer or an exception
\* it retries and returns status_code 0.  The client retries after every
\* failure and always returns status_code 0.
Answer(status) == [kind |-> "response", status |-> status, body |-> "json"]

CallResult(ok, code, answered, err) ==
    [success |-> ok, status_code |-> code, answered |-> answered, error |-> err]

CallResults(im) ==
    {CallResult(TRUE, 200, 200, NoError)}
      \cup (IF im = "core"
              THEN {CallResult(FALSE, s, s, CoreStatusError(Answer(s))) : s \in {422, 404}}
                     \cup {CallResult(FALSE, 0, 500, CoreStatusError(Answer(500))),
                           CallResult(FALSE, 0, 0, CoreExceptionError("Timeout"))}
              ELSE {CallResult(FALSE, 0, s, ClientStatusError(Answer(s))) : s \in {422, 404, 500}}
                     \cup {CallResult(FALSE, 0, 0, ClientExceptionError("Timeout"))})

RemoteBatchResultFixedMessage(im, bs, r) ==
    IF ~r.success
      THEN BatchResult(FALSE, "Batch update failed.", 0, ListedPathErrors(im, bs, FALSE))
    ELSE IF PathErrorCount(im, bs) > 0
      THEN BatchResult(TRUE, "Success with path processing errors", r.status_code,
                       PathErrorCount(im, bs))
    ELSE BatchResult(TRUE, "None", r.status_code, 0)


\* The result of a commit from the ApiResult of its PUT.
RemoteBatchResult(im, bs, r) ==
    IF ~r.success
      THEN [BatchResult(FALSE, "Batch update failed.", r.status_code,
                        ListedPathErrors(im, bs, FALSE)) EXCEPT !.error = r.error]
    ELSE IF PathErrorCount(im, bs) > 0
      THEN BatchResult(TRUE, "Success with path processing errors", r.status_code,
                       PathErrorCount(im, bs))
    ELSE BatchResult(TRUE, "None", r.status_code, 0)

AttrPool ==
    { Attr("/M1/Shader.inputs", "diffuse_texture", FALSE),
      Attr("\\M1\\Shader.inputs", "normalmap_texture", TRUE) }

PathPool ==
    { Path("C:/out/a.rtex.dds", TRUE, TRUE, TRUE),
      Path("C:\\out\\n.rtex.dds", TRUE, FALSE, FALSE),
      Path("out/a.rtex.dds", FALSE, TRUE, TRUE),
      EmptyPath }

BindingPool == {Binding(a, p) : a \in AttrPool, p \in PathPool}

SeqsUpTo(S, n) == UNION {[1 .. k -> S] : k \in 0 .. n}

BatchInit ==
    /\ bimpl \in Impls
    /\ bindings \in SeqsUpTo(BindingPool, MaxBindings)
    /\ bProjectDir \in {"", "C:/out"}
    /\ bpc = "called"
    /\ bPuts = << >>
    /\ bResult = BatchResult(FALSE, "None", 0, 0)
    /\ bAnswered = 0
    /\ HttpIdle /\ WorkerIdle /\ PushIdle /\ LaterIdle

\* The commit up to its request: input checks and payload preparation; it
\* returns at once when nothing is left to send.
BatchPrepare ==
    /\ bpc = "called"
    /\ LET local == LocalBatchResult(bimpl, bindings, bProjectDir) IN
       IF local # NoLocalResult
         THEN /\ bResult' = local
              /\ bpc' = "done"
              /\ UNCHANGED bPuts
         ELSE /\ bPuts' = Append(bPuts, [force |-> (bimpl = "client"),
                                         textures |-> PayloadOf(bimpl, bindings)])
              /\ bpc' = "sent"
              /\ UNCHANGED bResult
    /\ UNCHANGED <<bimpl, bindings, bProjectDir, bAnswered>>
    /\ UNCHANGED nonBatchVars

\* The PUT /stagecraft/textures/ call returns r; the commit returns.
BatchAnswer(r) ==
    /\ bpc = "sent"
    /\ bResult' = RemoteBatchResult(bimpl, bindings, r)
    /\ bAnswered' = r.answered
    /\ bpc' = "done"
    /\ UNCHANGED <<bimpl, bindings, bProjectDir, bPuts>>
    /\ UNCHANGED nonBatchVars

BatchNext ==
    \/ BatchPrepare
    \/ \E r \in CallResults(bimpl) : BatchAnswer(r)

BatchSpec == BatchInit /\ [][BatchNext]_vars

(***************************************************************************)
(* Properties of the batch commit                                          *)
(***************************************************************************)
AllNonAbsolute(bs) == \A i \in 1 .. Len(bs) : ~bs[i].path.abs

\* C10: a commit given at least one binding, all of whose file paths are
\* non-absolute, sends no request and returns ok = FALSE.
C10_AllRelativeRejected ==
    (bindings # << >> /\ AllNonAbsolute(bindings))
      => (bPuts = << >> /\ bpc # "sent" /\ (bpc = "done" => ~bResult.ok))

\* C10 witness: a commit of two bindings with non-absolute paths has returned.
C10_WitnessTwoRelative ==
    /\ bpc = "done" /\ Len(bindings) = 2 /\ AllNonAbsolute(bindings)
    /\ bindings[1].path.file # "" /\ bProjectDir # ""
    /\ ~bResult.ok /\ bResult.pathErrors = 2

\* The statuses the message of a failed commit shows: the one it ends
\* with and the one inside the quoted error of the HTTP call.
ReportedStatuses == {bResult.status, bResult.error.status} \ {0}

MixedBindings(bs) ==
    /\ \E i \in 1 .. Len(bs) : IsAbs(bs[i].path)
    /\ \E i \in 1 .. Len(bs) : ~IsAbs(bs[i].path)

AbsoluteBindings(bs) == SelectSeq(bs, LAMBDA b : IsAbs(b.path))

PairsOf(bs) == [i \in 1 .. Len(bs) |-> PayloadPair(bs[i])]

\* C28: a commit given both absolute-path and non-absolute-path bindings
\* (and, in core, the project output directory its caller always passes)
\* sends exactly one PUT, whose texture list is the pairs of the
\* absolute-path bindings in input order, and its result lists one path
\* error for every non-absolute binding.
C28_MixedCommitSendsAbsolute ==
    (MixedBindings(bindings) /\ (bimpl = "core" => bProjectDir # "") /\ bpc # "called") =>
        /\ Len(bPuts) = 1
        /\ bPuts[1].textures = PairsOf(AbsoluteBindings(bindings))
        /\ bpc = "done" =>
              bResult.pathErrors = Len(bindings) - Len(AbsoluteBindings(bindings))

(***************************************************************************)
(* Part 4.  The push run (core.handle_push_to_remix)                       *)
(***************************************************************************)
MaxTextures == 2

MaxAttrs == 2

\* PAINTER_CHANNEL_TO_REMIX_PBR_MAP
PainterChannelToPbr ==
    [basecolor |-> "albedo", base_color |-> "albedo", albedo |-> "albedo",
     diffuse |-> "albedo", normal |-> "normal", height |-> "height",
     displacement |-> "height", roughness |-> "roughness", metallic |-> "metallic",
     metalness |-> "metallic", emissive |-> "emissive", emission |-> "emissive"]

\* pbr_suffix_preferences
PbrSuffixPreferences ==
    [albedo |-> <<"diffuse_texture", "albedo_texture", "basecolor_texture">>,
     normal |-> <<"normalmap_texture", "normal_texture">>,
     height |-> <<"height_texture", "heightmap_texture", "displacement_texture">>,
     roughness |-> <<"reflectionroughness_texture", "roughness_texture">>,
     metallic |-> <<"metallic_texture", "metalness_texture">>,
     emissive |-> <<"emissive_mask_texture", "emissive_texture">>,
     opacity |-> <<"opacity_texture", "opacity_mask">>]

\* pbr_suffix_preferences.get(pbr_type, [])
PreferredSuffixes(pbr) ==
    IF pbr \in DOMAIN PbrSuffixPreferences THEN PbrSuffixPreferences[pbr] ELSE << >>

\* An exported file: `channel` is the key of PAINTER_CHANNEL_TO_REMIX_PBR_MAP
\* that the lower-cased base name ends with after a '_' ("none" if no key).
ExportedFile(name, channel, isfile, ext) ==
    [name |-> name, channel |-> channel, isfile |-> isfile, ext |-> ext]

FilePool ==
    { ExportedFile("M_BaseColor.png", "basecolor", TRUE, "png"),
      ExportedFile("M_Normal.png", "normal", TRUE, "png"),
      ExportedFile("M_notes.png", "none", TRUE, "png") }

\* str.lower() on the attribute names of the model
Lower(name) ==
    CASE name = "Albedo_Texture" -> "albedo_texture"
      [] name = "NormalMap_Texture" -> "normalmap_texture"
      [] OTHER -> name

\* attr_path.lower().endswith(f":{target_suffix.lower()}")
EndsWithSuffix(attr, suffix) == attr.tail # NoColon /\ Lower(attr.tail) = Lower(suffix)

\* Attribute paths the textures query may return.
MaterialAttrPool ==
    { Attr("/M1/Shader.inputs", "diffuse_texture", FALSE),
      Attr("/M1/Shader.inputs", "Albedo_Texture", FALSE),
      Attr("/M1/Shader.inputs", "normalmap_texture", FALSE),
      Attr("/M1/Shader/diffuse_texture", NoColon, FALSE) }

\* The mapping of an exported file: skipped unless it is a file with the
\* export extension whose name ends with a known channel suffix.
PbrOfFile(f) ==
    IF f.isfile /\ f.ext = "png" /\ f.channel \in DOMAIN PainterChannelToPbr
      THEN PainterChannelToPbr[f.channel] ELSE "none"

Keys(m) == {m[i].pbr : i \in 1 .. Len(m)}

\* exported_files_map[remix_pbr_type] = file_path, keeping insertion order
PutFile(m, pbr, f) ==
    IF pbr \in Keys(m)
      THEN [i \in 1 .. Len(m) |-> IF m[i].pbr = pbr THEN [pbr |-> pbr, file |-> f] ELSE m[i]]
      ELSE Append(m, [pbr |-> pbr, file |-> f])

RECURSIVE MapExportedFiles(_, _)
\* The loop over exported_files_list that fills exported_files_map.
MapExportedFiles(files, m) ==
    IF files = << >> THEN m
    ELSE LET f == Head(files) IN
         MapExportedFiles(Tail(files),
                          IF PbrOfFile(f) = "none" THEN m ELSE PutFile(m, PbrOfFile(f), f))

\* Index of the first binding that ends with the suffix and is not yet in
\* found_attributes_set; 0 if there is none.
FirstUnclaimed(bs, suffix, found) ==
    LET hits == {i \in 1 .. Len(bs) : EndsWithSuffix(bs[i], suffix) /\ bs[i] \notin found}
    IN IF hits = {} THEN 0 ELSE CHOOSE i \in hits : \A j \in hits : i <= j

MatchBySuffixesBindingOrder(bs, suffixes, found) ==
    LET hits == {i \in 1 .. Len(bs) :
                    /\ \E k \in 1 .. Len(suffixes) : EndsWithSuffix(bs[i], suffixes[k])
                    /\ bs[i] \notin found}
    IN IF hits = {} THEN 0 ELSE CHOOSE i \in hits : \A j \in hits : i <= j

RECURSIVE MatchBySuffixes(_, _, _)
\* The loop over preferred_suffixes: index of the matched binding, or 0.
MatchBySuffixes(bs, suffixes, found) ==
    IF suffixes = << >> THEN 0
    ELSE IF FirstUnclaimed(bs, Head(suffixes), found) # 0
      THEN FirstUnclaimed(bs, Head(suffixes), found)
      ELSE MatchBySuffixes(bs, Tail(suffixes), found)

MatchedAttrIsFirstBinding(bs, i) == bs[1]

\* actual_material_attributes[pbr_type] = attr_path: the matched path
MatchedAttr(bs, i) == bs[i]

NoDiscovery == [mapped |-> << >>, found |-> {}, unmapped |-> << >>]

RECURSIVE Discover(_, _, _)
\* The loop over ingested_paths_map_absolute.keys(): acc holds
\* actual_material_attributes, found_attributes_set, unmappable_pbr_types.
Discover(types, bs, acc) ==
    IF types = << >> THEN acc
    ELSE LET pbr == Head(types)
             i == MatchBySuffixes(bs, PreferredSuffixes(pbr), acc.found)
         IN Discover(Tail(types), bs,
                IF i = 0
                  THEN [acc EXCEPT !.unmapped = Append(@, pbr)]
                  ELSE [acc EXCEPT !.mapped = Append(@, [pbr |-> pbr, attr |-> MatchedAttr(bs, i)]),
                                   !.found = @ \cup {MatchedAttr(bs, i)}])

\* An entry of all_errors: its text (shortened) and the substrings of it
\* that the final status report tests for.
Err(text, marks) == [text |-> text, marks |-> marks]

ProcessError(msg) ==
    Err("Process Error: " \o msg,
        CASE msg = "Export Failed" -> {"Export Failed"}
          [] msg = "Mapping Failed: Mapping Error" -> {"Mapping Failed", "Mapping Error"}
          [] msg = "Ingest Error" -> {"Ingest Error"}
          [] OTHER -> {})

HasMark(errs, mark) == \E i \in 1 .. Len(errs) : mark \in errs[i].marks

\* The first line of the final message (the classification of the run).
Verdict(exported, ingested, mapped, updated, errs) ==
    LET export_failed_critically == HasMark(errs, "Export Failed")
        mapping_failed_critically ==
            HasMark(errs, "Mapping Failed") \/ HasMark(errs, "Mapping Error")
        ingest_failed_critically ==
            \/ HasMark(errs, "Ingest Error")
            \/ \E i \in 1 .. Len(errs) :
                  "Ingest-" \in errs[i].marks /\ "Success reported but no output path found" \notin errs[i].marks
            \/ (exported > 0 /\ ingested = 0)
        attribute_lookup_failed ==
            \/ \E i \in 1 .. Len(errs) :
                  "AttrLookup: " \in errs[i].marks /\ "AttrLookup-Mapping" \notin errs[i].marks
            \/ (ingested > 0 /\ mapped = 0)
        attribute_mapping_failed_partially == HasMark(errs, "AttrLookup-Mapping")
        update_failed_critically ==
            \E i \in 1 .. Len(errs) :
                "Update-Batch" \in errs[i].marks /\ "Warning" \notin errs[i].marks
    IN IF errs # << >>
         THEN CASE export_failed_critically -> "Push Failed! (Export Error)"
                [] ~export_failed_critically /\ mapping_failed_critically ->
                      "Push Failed! (File Suffix Mapping Error)"
                [] OTHER ->
                   IF ingest_failed_critically THEN "Push Failed! (Ingest Error)"
                   ELSE IF attribute_lookup_failed
                     THEN "Push Failed! (Attribute Lookup/Mapping Error)"
                   ELSE IF update_failed_critically THEN "Push Failed! (Update Error)"
                   ELSE IF updated = 0 /\ mapped > 0
                     THEN "Push Failed! (Update Submission Error)"
                   ELSE "Push Partially Successful or Failed"
       ELSE IF exported > 0 /\ updated = mapped /\ ingested = exported /\ mapped = ingested
         THEN "Push Successful!"
       ELSE IF exported = 0 THEN "Push Completed"
       ELSE IF attribute_mapping_failed_partially THEN "Push Partially Successful"
       ELSE "Push Status Uncertain"

\* summary and final_message of the finally clause
Summary(expMap, ingMap, mapped, updated, errs) ==
    [exported |-> Len(expMap), ingested |-> Len(ingMap), mapped |-> Len(mapped),
     committed |-> Len(updated), issues |-> Len(errs),
     verdict |-> Verdict(Len(expMap), Len(ingMap), Len(mapped), Len(updated), errs)]

\* A request of the run as the remote sees it (one entry per client call).
Request(method, endpoint, textures) ==
    [method |-> method, endpoint |-> endpoint, textures |-> textures]

\* Outcomes of the checks before the export: the basic checks, the link
\* metadata and the default-directory query.  For "ok" the output directory
\* exists ("dir"), only its "ingested" subdirectory exists ("ingestedOnly")
\* or neither does ("missing").
PrepareFailures ==
    {"Dependency Error", "Project Error", "Link Error", "Metadata Error",
     "Remix Directory Error"}

DirStates == {"dir", "ingestedOnly", "missing"}

\* What the ingest of one texture meets: the exported file is gone, makedirs
\* raises, the request fails, the answer holds no output path, or the
\* answer names the path p.
ServerPaths ==
    { Path("C:/proj/out/M.a.rtex.dds", TRUE, TRUE, TRUE),
      Path("C:/proj/out/M.n.rtex.dds", TRUE, FALSE, TRUE),
      Path("M.a.rtex.dds", FALSE, TRUE, TRUE) }

IngestOutcomes ==
    [kind : {"source_gone", "raises", "failed", "no_path"}, path : {EmptyPath}]
      \cup [kind : {"ok"}, path : ServerPaths]

NormalizeIngestedKeepsRelative(p) == [p EXCEPT !.fwd = FALSE]

\* os.path.normpath(ingested_path), after os.path.join with the output
\* directory when the path is relative
NormalizeIngested(p) == [p EXCEPT !.abs = TRUE, !.fwd = FALSE]

\* Answers of the textures query: a failed or unusable answer, a list with
\* entries that are not pairs, or a list of [attribute path, file] pairs.
DiscoverAnswers ==
    [kind : {"failed", "malformed"}, textures : {<< >>}]
      \cup [kind : {"ok"}, textures : SeqsUpTo(MaterialAttrPool, MaxAttrs)]

TargetAnswers == {"target_ok", "target_no_id", "fallback_ok", "fallback_failed"}

PushInit ==
    /\ ppc = "start"
    /\ dirState = "dir"
    /\ exportedFiles = << >>
    /\ exportedMap = << >>
    /\ ingestIdx = 0
    /\ ingestErrors = << >>
    /\ ingestedMap = << >>
    /\ existingBindings = << >>
    /\ mappedAttrs = << >>
    /\ updatedTypes = << >>
    /\ allErrors = << >>
    /\ requestLog = << >>
    /\ summaries = << >>
    /\ saveRequested = FALSE
    /\ commitOutcome = "none"
    /\ HttpIdle /\ WorkerIdle /\ BatchIdle /\ LaterIdle

FinishWithoutSummary(errs, updated) ==
    /\ allErrors' = errs
    /\ updatedTypes' = updated
    /\ UNCHANGED summaries
    /\ ppc' = "done"

\* The finally clause: the final status report; the run is over.
Finish(errs, updated) ==
    /\ allErrors' = errs
    /\ updatedTypes' = updated
    /\ summaries' = Append(summaries,
                           Summary(exportedMap', ingestedMap', mappedAttrs', updated, errs))
    /\ ppc' = "done"

\* "except Exception as main_e" followed by the finally clause.
Abort(msg) == Finish(Append(allErrors, ProcessError(msg)), updatedTypes)

\* Basic checks, link metadata and the default output directory.
PushPrepare(failure, d) ==
    /\ ppc = "start"
    /\ IF failure # "none"
         THEN /\ requestLog' =
                   IF failure = "Remix Directory Error"
                     THEN <<Request("GET", "/stagecraft/assets/default-directory", << >>),
                            Request("GET", "/stagecraft/project/", << >>)>>
                     ELSE requestLog
              /\ UNCHANGED <<dirState, exportedMap, ingestedMap, mappedAttrs>>
              /\ Abort(failure)
         ELSE /\ requestLog' = <<Request("GET", "/stagecraft/assets/default-directory", << >>)>>
              /\ dirState' = d
              /\ ppc' = "export"
              /\ UNCHANGED <<exportedMap, ingestedMap, mappedAttrs, updatedTypes, allErrors,
                             summaries>>
    /\ UNCHANGED <<exportedFiles, ingestIdx, ingestErrors, existingBindings, saveRequested,
                   commitOutcome>>
    /\ UNCHANGED nonPushVars

\* The export: it fails, or yields the list of exported files.
PushExport(ok, files) ==
    /\ ppc = "export"
    /\ IF ok
         THEN /\ exportedFiles' = files
              /\ ppc' = "map"
              /\ UNCHANGED <<exportedMap, ingestedMap, mappedAttrs, updatedTypes, allErrors,
                             summaries>>
         ELSE /\ UNCHANGED <<exportedFiles, exportedMap, ingestedMap, mappedAttrs>>
              /\ Abort("Export Failed")
    /\ UNCHANGED <<dirState, ingestIdx, ingestErrors, existingBindings, requestLog,
                   saveRequested, commitOutcome>>
    /\ UNCHANGED nonPushVars

\* Mapping of the exported files to PBR types by file-name suffix.
PushMapFiles ==
    /\ ppc = "map"
    /\ exportedMap' = MapExportedFiles(exportedFiles, << >>)
    /\ IF exportedMap' = << >>
         THEN /\ UNCHANGED <<ingestedMap, mappedAttrs>>
              /\ Abort("Mapping Failed: Mapping Error")
         ELSE /\ ppc' = "ingest"
              /\ UNCHANGED <<ingestedMap, mappedAttrs, updatedTypes, allErrors, summaries>>
    /\ UNCHANGED <<dirState, exportedFiles, ingestIdx, ingestErrors, existingBindings,
                   requestLog, saveRequested, commitOutcome>>
    /\ UNCHANGED nonPushVars

IngestRequest == Request("POST", "/ingestcraft/mass-validator/queue/material", << >>)

\* One iteration of the ingest loop (one call of ingest_texture_to_remix);
\* after the last texture the ingest errors join all_errors and the run
\* stops if nothing was ingested.
PushIngest(o) ==
    /\ ppc = "ingest"
    /\ ingestIdx < Len(exportedMap)
    /\ LET t == exportedMap[ingestIdx + 1]
           last == ingestIdx + 1 = Len(exportedMap)
           kind == IF o.kind = "source_gone" THEN o.kind
                   ELSE IF dirState = "missing" THEN "bad_dir"
                   ELSE o.kind
       IN
       /\ ingestIdx' = ingestIdx + 1
       /\ requestLog' = IF kind \in {"source_gone", "bad_dir", "raises"} THEN requestLog
                        ELSE Append(requestLog, IngestRequest)
       /\ ingestedMap' = IF kind = "ok"
                           THEN Append(ingestedMap,
                                       [pbr |-> t.pbr, path |-> NormalizeIngested(o.path)])
                           ELSE ingestedMap
       /\ ingestErrors' = IF kind \in {"source_gone", "bad_dir", "failed", "no_path"}
                            THEN Append(ingestErrors, Err("Ingest-" \o t.pbr, {"Ingest-"}))
                            ELSE ingestErrors
       /\ UNCHANGED <<exportedMap, mappedAttrs>>
       /\ IF kind = "raises"
            THEN Abort("OSError")
            ELSE IF last
              THEN IF ingestedMap' = << >>
                     THEN Finish(Append(allErrors \o ingestErrors', ProcessError("Ingest Error")),
                                 updatedTypes)
                     ELSE /\ allErrors' = allErrors \o ingestErrors'
                          /\ ppc' = "discover"
                          /\ UNCHANGED <<updatedTypes, summaries>>
              ELSE UNCHANGED <<ppc, allErrors, updatedTypes, summaries>>
    /\ UNCHANGED <<dirState, exportedFiles, existingBindings, saveRequested, commitOutcome>>
    /\ UNCHANGED nonPushVars

RECURSIVE PbrTypesOf(_)
PbrTypesOf(m) == IF m = << >> THEN << >> ELSE <<Head(m).pbr>> \o PbrTypesOf(Tail(m))

\* The textures query and the matching of ingested PBR types to attributes.
PushDiscover(q) ==
    /\ ppc = "discover"
    /\ requestLog' = Append(requestLog, Request("GET", "/stagecraft/assets/{prim}/textures", << >>))
    /\ UNCHANGED <<exportedMap, ingestedMap>>
    /\ IF q.kind = "malformed"
         THEN /\ UNCHANGED <<existingBindings, mappedAttrs>>
              /\ Abort("ValueError")
         ELSE LET found == IF q.textures = << >> THEN NoDiscovery
                           ELSE Discover(PbrTypesOf(ingestedMap), q.textures, NoDiscovery)
                  lookupErrors ==
                      IF q.kind = "failed"
                        THEN <<Err("AttrLookup: Failed to query", {"AttrLookup: "})>>
                      ELSE IF q.textures = << >>
                        THEN <<Err("AttrLookup: no existing texture bindings", {"AttrLookup: "})>>
                      ELSE << >>
                  mappingErrors ==
                      IF found.unmapped # << >>
                        THEN <<Err("AttrLookup-Mapping: Could not map PBR types",
                                   {"AttrLookup-Mapping"})>>
                        ELSE << >>
              IN /\ existingBindings' = q.textures
                 /\ mappedAttrs' = found.mapped
                 /\ allErrors' = allErrors \o lookupErrors \o mappingErrors
                 /\ ppc' = "commit"
                 /\ UNCHANGED <<updatedTypes, summaries>>
    /\ UNCHANGED <<dirState, exportedFiles, ingestIdx, ingestErrors, saveRequested,
                   commitOutcome>>
    /\ UNCHANGED nonPushVars

IngestedPath(m, pbr) == (CHOOSE i \in 1 .. Len(m) : m[i].pbr = pbr)

RECURSIVE UpdatePayload(_, _)
\* textures_update_payload: (attribute, ingested path) for every mapped type
UpdatePayload(mapped, ing) ==
    IF mapped = << >> THEN << >>
    ELSE (IF Head(mapped).pbr \in Keys(ing)
            THEN <<Binding(Head(mapped).attr, ing[IngestedPath(ing, Head(mapped).pbr)].path)>>
            ELSE << >>)
           \o UpdatePayload(Tail(mapped), ing)

\* The batch update of the material inputs.
PushCommit(r) ==
    /\ ppc = "commit"
    /\ LET payload == UpdatePayload(mappedAttrs, ingestedMap)
           local == LocalBatchResult("core", payload, "dir")
           sends == payload # << >> /\ dirState = "dir" /\ local = NoLocalResult
           res == IF local # NoLocalResult THEN local
                  ELSE RemoteBatchResult("core", payload, r)
           updateErrors ==
               IF payload = << >> THEN << >>
               ELSE IF dirState # "dir"
                 THEN <<Err("Update-Batch: Invalid project output directory", {"Update-Batch"})>>
               ELSE IF ~res.ok
                 THEN <<Err("Update-Batch: " \o res.text, {"Update-Batch"})>>
               ELSE << >>
       IN
       /\ requestLog' = IF sends
                          THEN Append(requestLog,
                                      Request("PUT", "/stagecraft/textures/",
                                              PayloadOf("core", payload)))
                          ELSE requestLog
       /\ updatedTypes' = IF payload # << >> /\ dirState = "dir" /\ res.ok
                            THEN updatedTypes \o PbrTypesOf(mappedAttrs)
                            ELSE updatedTypes
       /\ allErrors' = allErrors \o updateErrors
       /\ commitOutcome' = IF payload = << >> \/ dirState # "dir" THEN "skipped"
                            ELSE IF res.ok THEN "accepted"
                            ELSE "failed"
    /\ ppc' = "save"
    /\ UNCHANGED <<dirState, exportedFiles, exportedMap, ingestIdx, ingestErrors, ingestedMap,
                   existingBindings, mappedAttrs, summaries, saveRequested>>
    /\ UNCHANGED nonPushVars

SaveWantedAlways(updated) == TRUE

\* "if successfully_updated_types:"
SaveWanted(updated) == updated # << >>

SaveStageRequestsSaveFirst(t) ==
    <<Request("POST", "/stagecraft/layers/{id}/save", << >>),
      Request("GET", "/stagecraft/layers/target", << >>)>>

\* The requests of get_current_edit_target for the answer t, then the save
\* request of save_remix_layer if a target was found.
SaveStageRequests(t) ==
    (IF t \in {"target_ok", "target_no_id"}
       THEN <<Request("GET", "/stagecraft/layers/target", << >>)>>
       ELSE <<Request("GET", "/stagecraft/layers/target", << >>),
              Request("GET", "/stagecraft/project/", << >>)>>)
      \o (IF t \in {"target_ok", "fallback_ok"}
            THEN <<Request("POST", "/stagecraft/layers/{id}/save", << >>)>>
            ELSE << >>)

\* The layer save (only after a successful update), then the final report.
PushSave(t, saved) ==
    /\ ppc = "save"
    /\ UNCHANGED <<exportedMap, ingestedMap, mappedAttrs>>
    /\ IF SaveWanted(updatedTypes)
         THEN LET haveTarget == t \in {"target_ok", "fallback_ok"}
                  saveErrors ==
                      IF ~haveTarget THEN <<Err("SaveLayer-GetTarget", {})>>
                      ELSE IF ~saved THEN <<Err("SaveLayer-Request", {})>>
                      ELSE << >>
              IN /\ saveRequested' = TRUE
                 /\ requestLog' = requestLog \o SaveStageRequests(t)
                 /\ Finish(allErrors \o saveErrors, updatedTypes)
         ELSE /\ UNCHANGED <<saveRequested, requestLog>>
              /\ Finish(allErrors, updatedTypes)
    /\ UNCHANGED <<dirState, exportedFiles, ingestIdx, ingestErrors, existingBindings,
                   commitOutcome>>
    /\ UNCHANGED nonPushVars

PushNext ==
    \/ \E f \in PrepareFailures \cup {"none"}, d \in DirStates : PushPrepare(f, d)
    \/ \E ok \in BOOLEAN, files \in SeqsUpTo(FilePool, MaxTextures) \ {<< >>} :
          PushExport(ok, files)
    \/ PushMapFiles
    \/ \E o \in IngestOutcomes : PushIngest(o)
    \/ \E q \in DiscoverAnswers : PushDiscover(q)
    \/ \E r \in CallResults("core") : PushCommit(r)
    \/ \E t \in TargetAnswers, saved \in BOOLEAN : PushSave(t, saved)

PushSpec == PushInit /\ [][PushNext]_vars

\* The run is scheduled until it ends: no step of it waits for anything
\* but the return of the call it is blocked in.
FairPushSpec == PushInit /\ [][PushNext]_vars /\ WF_vars(PushNext)

(***************************************************************************)
(* Properties of the push run                                              *)
(***************************************************************************)
PushDone == ppc = "done"

PutRequests == {i \in 1 .. Len(requestLog) : requestLog[i].method = "PUT"}

HasError(text) == \E i \in 1 .. Len(allErrors) : allErrors[i].text = text

SummaryReportsCounts(s) ==
    /\ s.exported = Len(exportedMap)
    /\ s.ingested = Len(ingestedMap)
    /\ s.mapped = Len(mappedAttrs)
    /\ s.committed = Len(updatedTypes)
    /\ s.issues = Len(allErrors)

\* C7: every push run ends, whatever fails on the way, and a run that has
\* ended has produced exactly one final summary, which reports the numbers
\* of exported, ingested, mapped and committed textures and of issues; a
\* run that has not ended has produced none.
C7_AlwaysOneSummary ==
    /\ <>PushDone
    /\ [](IF PushDone
            THEN Len(summaries) = 1 /\ SummaryReportsCounts(summaries[1])
            ELSE summaries = << >>)

\* A run stopped by an exception of a collaborator (the textures answer
\* holds entries that are not pairs) after two textures were ingested.
C7_WitnessAbortedRun ==
    /\ PushDone /\ Len(summaries) = 1
    /\ HasError("Process Error: ValueError")
    /\ summaries[1].ingested = 2 /\ summaries[1].mapped = 0 /\ summaries[1].issues = 1

\* C8: every binding in the payload of the batch PUT has a non-empty
\* attribute path and a non-empty ingested file path that is absolute and
\* names an existing file.
C8_PayloadPathsExist ==
    \A i \in PutRequests :
        \A k \in 1 .. Len(requestLog[i].textures) :
            LET b == requestLog[i].textures[k] IN
            /\ b.attr.prim # ""
            /\ b.path.file # ""
            /\ IsAbs(b.path)
            /\ b.path.exists

\* C9: attribute discovery never gives one attribute path to two different
\* PBR types.
C9_AttrsNotShared ==
    \A i, j \in 1 .. Len(mappedAttrs) :
        mappedAttrs[i].attr = mappedAttrs[j].attr => mappedAttrs[i].pbr = mappedAttrs[j].pbr

\* Two ingested PBR types were matched against a list with two attributes
\* and both found one.
C9_WitnessTwoMapped ==
    /\ ppc \in {"commit", "save", "done"}
    /\ Len(existingBindings) = 2 /\ Len(mappedAttrs) = 2
    /\ mappedAttrs[1].pbr # mappedAttrs[2].pbr

DiscoveryRequests ==
    {i \in 1 .. Len(requestLog) : requestLog[i].endpoint = "/stagecraft/assets/{prim}/textures"}

\* C27: once the ingest loop of a push is over, every mapped exported
\* texture was handed to the ingest, each one that was not ingested left
\* one entry in the issue list, and the run went on to the textures query
\* if at least one texture was ingested.
C27_IngestFailureNotFatal ==
    (ingestIdx >= 1 /\ ppc # "ingest") =>
        /\ ingestIdx = Len(exportedMap)
        /\ Len(ingestErrors) = Len(exportedMap) - Len(ingestedMap)
        /\ ingestedMap # << >> => (ppc = "discover" \/ DiscoveryRequests # {})

\* The attributes the textures query returned that end with the k-th
\* preferred suffix of a PBR type and are not among `claimed`.
FreeAttrs(pbr, k, claimed) ==
    {i \in 1 .. Len(existingBindings) :
        /\ EndsWithSuffix(existingBindings[i], PbrSuffixPreferences[pbr][k])
        /\ existingBindings[i] \notin claimed}

\* C33: after discovery on a non-empty attribute list, the attribute of
\* every mapped PBR type is the first returned attribute that ends with the
\* most preferred suffix of the type for which an attribute not claimed by
\* an earlier type exists; every ingested type left without one is
\* reported as not mapped, and the other types stay mapped.
C33_FirstPreferredUnclaimed ==
    existingBindings # << >> =>
        /\ \A n \in 1 .. Len(mappedAttrs) :
              LET m == mappedAttrs[n]
                  claimed == {mappedAttrs[i].attr : i \in 1 .. n - 1}
              IN \E k \in 1 .. Len(PbrSuffixPreferences[m.pbr]) :
                    /\ \A j \in 1 .. k - 1 : FreeAttrs(m.pbr, j, claimed) = {}
                    /\ \E i \in FreeAttrs(m.pbr, k, claimed) :
                          /\ \A h \in FreeAttrs(m.pbr, k, claimed) : i <= h
                          /\ m.attr = existingBindings[i]
        /\ \A t \in 1 .. Len(ingestedMap) :
              LET pbr == ingestedMap[t].pbr
                  claimed == {mappedAttrs[i].attr : i \in 1 .. Len(mappedAttrs)}
              IN IF \A k \in 1 .. Len(PbrSuffixPreferences[pbr]) : FreeAttrs(pbr, k, claimed) = {}
                      /\ \A i \in 1 .. Len(mappedAttrs) : mappedAttrs[i].pbr # pbr
                   THEN HasMark(allErrors, "AttrLookup-Mapping")
                   ELSE \E i \in 1 .. Len(mappedAttrs) : mappedAttrs[i].pbr = pbr

\* C33 witness: albedo and normal were ingested; no attribute ends with
\* albedo's first suffix, so albedo took the one with its second suffix,
\* and normal, with no attribute, was reported while albedo stayed mapped.
C33_WitnessLowerPreference ==
    /\ Len(ingestedMap) = 2 /\ Len(existingBindings) = 2
    /\ Len(mappedAttrs) = 1 /\ mappedAttrs[1].pbr = "albedo"
    /\ EndsWithSuffix(mappedAttrs[1].attr, "albedo_texture")
    /\ HasMark(allErrors, "AttrLookup-Mapping")

RequestsTo(endpoint) ==
    {i \in 1 .. Len(requestLog) : requestLog[i].endpoint = endpoint}

TargetLookupFailed ==
    \E i \in 1 .. Len(allErrors) : allErrors[i].text = "SaveLayer-GetTarget"

\* C34: in a run that came to save the layer, the project-info endpoint is
\* queried only after the layers endpoint, and the lookup of the edit
\* target is reported as failed only when both were queried.
C34_FallbackBeforeFailure ==
    saveRequested =>
        /\ \A j \in RequestsTo("/stagecraft/project/") :
              \E i \in RequestsTo("/stagecraft/layers/target") : i < j
        /\ RequestsTo("/stagecraft/layers/target") # {}
        /\ TargetLookupFailed =>
              \E j \in RequestsTo("/stagecraft/project/") :
                 \E i \in RequestsTo("/stagecraft/layers/target") : i < j

\* The place of a stage in the run; "start" is the preparation that
\* precedes the export.
StageRank(pc) ==
    CASE pc = "start" -> 0 [] pc = "export" -> 1 [] pc = "map" -> 2
      [] pc = "ingest" -> 3 [] pc = "discover" -> 4 [] pc = "commit" -> 5
      [] pc = "save" -> 6 [] pc = "done" -> 7

IngestRequests == RequestsTo("/ingestcraft/mass-validator/queue/material")

TextureQueries == RequestsTo("/stagecraft/assets/{prim}/textures")

BatchPuts == RequestsTo("/stagecraft/textures/")

TargetQueries == RequestsTo("/stagecraft/layers/target")

LayerSaves == RequestsTo("/stagecraft/layers/{id}/save")

AllBefore(earlier, later) == \A i \in earlier, j \in later : i < j

RequestsInStageOrder ==
    /\ AllBefore(IngestRequests, TextureQueries \cup BatchPuts \cup TargetQueries \cup LayerSaves)
    /\ AllBefore(TextureQueries, BatchPuts \cup TargetQueries \cup LayerSaves)
    /\ AllBefore(BatchPuts, TargetQueries \cup LayerSaves)
    /\ AllBefore(TargetQueries, LayerSaves)
    /\ Cardinality(TextureQueries) <= 1 /\ Cardinality(BatchPuts) <= 1
    /\ Cardinality(TargetQueries) <= 1 /\ Cardinality(LayerSaves) <= 1

\* C36: a push run goes from each stage to the next one or to its end,
\* staying in a stage only to ingest the next texture, and its requests
\* come in the order of the stages: the ingest requests, the textures
\* query, the batch PUT, the edit-target query, the save request.
C36_StagesInOrder ==
    /\ []RequestsInStageOrder
    /\ [][\/ StageRank(ppc') = StageRank(ppc) + 1
          \/ ppc' = "done" /\ ppc # "done"
          \/ ppc = "ingest" /\ ppc' = "ingest" /\ ingestIdx' = ingestIdx + 1]_vars

\* C36 witness: a finished run that sent two ingest requests, the textures
\* query, the PUT, the edit-target query and the save request.
C36_WitnessFullRun ==
    /\ PushDone /\ Cardinality(IngestRequests) = 2
    /\ TextureQueries # {} /\ BatchPuts # {} /\ TargetQueries # {} /\ LayerSaves # {}

\* The PUT of a run whose batch update was accepted.
AcceptedPuts == IF commitOutcome = "accepted" THEN PutRequests ELSE {}

\* The payload update_remix_textures_batch was called with, as far as the
\* finished run still shows it.
CommitPayload == UpdatePayload(mappedAttrs, ingestedMap)

\* C37: the committed count of the summary is the number of bindings in
\* the accepted PUT payload, and 0 when no PUT was accepted; a binding the
\* batch update skips for its non-absolute path is not in the count.
C37_CommittedCountsSent ==
    PushDone =>
       /\ AcceptedPuts = {} => summaries[1].committed = 0
       /\ \A j \in AcceptedPuts :
             /\ summaries[1].committed = Len(requestLog[j].textures)
             /\ summaries[1].committed
                  = Len(CommitPayload) - PathErrorCount("core", CommitPayload)

\* C37 witness: an accepted commit of two bindings, one of them with the
\* path the server gave relative to the output directory.
C37_WitnessRelativeIngested ==
    /\ PushDone /\ AcceptedPuts # {} /\ summaries[1].committed = 2
    /\ \E i \in 1 .. Len(ingestedMap) : ingestedMap[i].path.file = "M.a.rtex.dds"

(***************************************************************************)
(* Part 5.  Definition-path derivation                                     *)
(*   core._extract_definition_path            ("core")                     *)
(*   RemixAPIClient._extract_definition_path  ("client")                   *)
(* A prim path is the sequence of its '/'-separated segments.  A segment   *)
(* is a plain name, or inst_<text>[_<num>], or mesh_<text>[_<num>];        *)
(* num = NoNum when the segment has no numeric suffix.                     *)
(***************************************************************************)
MaxRest == 1

NoNum == -1

Plain(name) == [kind |-> "plain", text |-> name, num |-> NoNum]

Inst(hash, n) == [kind |-> "inst", text |-> hash, num |-> n]

Mesh(hash, n) == [kind |-> "mesh", text |-> hash, num |-> n]

\* The texts that [A-Z0-9]{16} matches, among the texts of the model.
MatchesHash16(text) == text \in {"ABCDEF0123456789", "0123456789ABCDEF"}

HashPool == {"ABCDEF0123456789", "0123456789ABCDEF", "abcdef0123456789", "ABCDEF"}

\* re.match of instance_pattern: the index of the inst_ segment the greedy
\* "^(.*)" leaves, 0 if the pattern does not match.
InstanceMatch(path) ==
    LET hits == {k \in 2 .. Len(path) :
                    /\ path[k - 1] = Plain("instances")
                    /\ path[k].kind = "inst"
                    /\ MatchesHash16(path[k].text)}
    IN IF hits = {} THEN 0 ELSE CHOOSE k \in hits : \A j \in hits : j <= k

\* The segment names that may precede mesh_<hash> in the second pattern:
\* core "meshes?" , client "(?:/meshes|/Mesh|/Geom)".
MeshParents(im) == IF im = "core" THEN {"meshes", "meshe"} ELSE {"meshes", "Mesh", "Geom"}

\* re.match of suffix_pattern / mesh_subpath_match: index of the mesh_
\* segment, 0 if the pattern does not match.
MeshMatch(im, path) ==
    LET hits == {k \in 2 .. Len(path) :
                    /\ path[k - 1].kind = "plain"
                    /\ path[k - 1].text \in MeshParents(im)
                    /\ path[k].kind = "mesh"
                    /\ MatchesHash16(path[k].text)}
    IN IF hits = {} THEN 0 ELSE CHOOSE k \in hits : \A j \in hits : j <= k

\* client: group 2 is "([A-Z0-9]{16}(?:_[0-9]+)?)", which takes the numeric
\* suffix of the segment with the hash
ClientMeshIdNum(seg) == seg.num

\* core: group 2 is "([A-Z0-9]{16})", the hash alone
CoreMeshIdNum(seg) == NoNum

NoPath == << >>

ExtractDefinitionPathUnchanged(im, path) ==
    IF path = << >> THEN NoPath
    ELSE IF InstanceMatch(path) # 0
      THEN LET k == InstanceMatch(path) IN
           SubSeq(path, 1, k - 2)
             \o <<Plain("meshes"),
                  Mesh(path[k].text,
                       IF im = "core" THEN CoreMeshIdNum(path[k]) ELSE ClientMeshIdNum(path[k]))>>
    ELSE IF MeshMatch(im, path) # 0
      THEN path
    ELSE NoPath

\* _extract_definition_path(prim_path); NoPath stands for None
ExtractDefinitionPath(im, path) ==
    IF path = << >> THEN NoPath
    ELSE IF InstanceMatch(path) # 0
      THEN LET k == InstanceMatch(path) IN
           SubSeq(path, 1, k - 2)
             \o <<Plain("meshes"),
                  Mesh(path[k].text,
                       IF im = "core" THEN CoreMeshIdNum(path[k]) ELSE ClientMeshIdNum(path[k]))>>
    ELSE IF MeshMatch(im, path) # 0
      THEN SubSeq(path, 1, MeshMatch(im, path))
    ELSE NoPath

BasePool == { <<Plain("RootNode")>>, <<Plain("RootNode"), Plain("Looks")>>, << >> }

RestPool == { <<Plain("mesh")>>, <<Plain("Mesh")>>, <<Plain("ref"), Plain("mesh")>> }

\* Instance paths <base>/instances/inst_<hash>[_<n>][/<rest>] and paths in
\* or at a mesh definition.
PrimPathPool ==
    { b \o <<Plain("instances"), Inst(h, n)>> \o r :
        b \in BasePool, h \in HashPool, n \in {NoNum, 0, 12},
        r \in {rr \in RestPool \cup {<< >>} : Len(rr) <= MaxRest} }
      \cup
    { b \o <<Plain(par), Mesh(h, n)>> \o r :
        b \in {<<Plain("RootNode")>>}, par \in {"meshes", "Mesh"},
        h \in {"ABCDEF0123456789", "ABCDEF"}, n \in {NoNum, 12},
        r \in {<< >>, <<Plain("mesh")>>} }

DefPathInit ==
    /\ dimpl \in Impls
    /\ primPath \in PrimPathPool
    /\ dpc = "called"
    /\ definitionPath = NoPath
    /\ HttpIdle /\ WorkerIdle /\ BatchIdle /\ PushIdle /\ PullIdle /\ SelectIdle /\ SaveIdle /\ UiIdle /\ SettingsIdle /\ SubmitIdle

nonDefPathVars == <<httpVars, workerVars, batchVars, pushVars, pullVars, selectVars, saveVars, uiVars, settingsVars, submitVars>>

ExtractDefinition ==
    /\ dpc = "called"
    /\ definitionPath' = ExtractDefinitionPath(dimpl, primPath)
    /\ dpc' = "done"
    /\ UNCHANGED <<dimpl, primPath>>
    /\ UNCHANGED nonDefPathVars

DefPathNext == ExtractDefinition

DefPathSpec == DefPathInit /\ [][DefPathNext]_vars

\* <base>/instances/inst_<16 chars of A-Z0-9>[_<n>][/<rest>]
IsInstancePath(path) ==
    \E k \in 2 .. Len(path) :
        /\ path[k - 1] = Plain("instances")
        /\ path[k].kind = "inst" /\ MatchesHash16(path[k].text)
        /\ \A j \in 1 .. Len(path) : j # k => path[j].kind = "plain"
        /\ \A j \in 1 .. k - 2 : path[j] # Plain("instances")

InstanceIndex(path) == CHOOSE k \in 2 .. Len(path) : path[k].kind = "inst"

\* C13: for an instance path the derived definition path is
\* <base>/meshes/mesh_<hash>: the numeric suffix of the instance and all
\* that follows the instance segment are dropped.
C13_InstanceToDefinition ==
    (dpc = "done" /\ IsInstancePath(primPath)) =>
        LET k == InstanceIndex(primPath) IN
        definitionPath = SubSeq(primPath, 1, k - 2)
                           \o <<Plain("meshes"), Mesh(primPath[k].text, NoNum)>>

\* A mesh path under /meshes/ or /Mesh/: no instance segment, and a segment
\* named meshes or Mesh with something below it.
IsMeshPath(path) ==
    /\ \A j \in 1 .. Len(path) : path[j].kind # "inst"
    /\ \E j \in 1 .. Len(path) - 1 : path[j] \in {Plain("meshes"), Plain("Mesh")}

\* The positions of a mesh_<16 chars> segment right below a segment the
\* implementation's pattern names (core: meshes; client: meshes, Mesh, Geom).
DefinitionSegments(im, path) ==
    {k \in 2 .. Len(path) :
        /\ path[k].kind = "mesh" /\ MatchesHash16(path[k].text)
        /\ path[k - 1] \in {Plain(n) : n \in
               IF im = "core" THEN {"meshes"} ELSE {"meshes", "Mesh", "Geom"}}}

MaxSelection == 2

File(abs, segs) == [abs |-> abs, segs |-> segs]

NoFile == File(FALSE, << >>)

Last(q) == q[Len(q)]

Front(q) == SubSeq(q, 1, Len(q) - 1)

\* os.path.dirname
Dirname(f) == File(f.abs, Front(f.segs))

RECURSIVE Collapse(_, _)
\* normpath on the segments: "seg/.." is dropped
Collapse(done, rest) ==
    IF rest = << >> THEN done
    ELSE IF Head(rest) = ".." /\ done # << >> /\ Last(done) # ".."
      THEN Collapse(Front(done), Tail(rest))
      ELSE Collapse(Append(done, Head(rest)), Tail(rest))

\* os.path.abspath(os.path.join(dir, rel)) for an absolute dir
JoinAbs(dir, rel) ==
    IF rel.abs THEN File(TRUE, Collapse(<< >>, rel.segs))
    ELSE File(TRUE, Collapse(<< >>, dir.segs \o rel.segs))

MeshNames == {"mesh.usd", "ctx.usd", "mesh.obj"}

\* any(f.lower().endswith(ext) for ext in ['.usd', ... , '.glb'])
HasMeshExtension(f) == f.segs # << >> /\ Last(f.segs) \in MeshNames

\* An entry of reference_paths: a [head, [files]] pair, a flat list of
\* files, or a single file.
PairEntry(head, files) == [shape |-> "pair", head |-> head, files |-> files]

ListEntry(files) == [shape |-> "list", head |-> NoFile, files |-> files]

StrEntry(f) == [shape |-> "str", head |-> NoFile, files |-> <<f>>]

NoMesh == [mesh |-> NoFile, context |-> NoFile]

RECURSIVE CoreScanFiles(_, _)
\* core: the loop over actual_file_list; temp is temp_context_path.
CoreScanFiles(files, temp) ==
    IF files = << >> THEN NoMesh
    ELSE LET f == Head(files)
             t == IF temp = NoFile /\ f.abs THEN File(TRUE, Collapse(<< >>, f.segs)) ELSE temp
         IN IF HasMeshExtension(f) THEN [mesh |-> f, context |-> t]
            ELSE CoreScanFiles(Tail(files), t)

RECURSIVE CoreScanEntries(_)
\* core: the loop over potential_paths_data
CoreScanEntries(entries) ==
    IF entries = << >> THEN NoMesh
    ELSE LET e == Head(entries)
             temp == IF e.shape = "pair" /\ e.head.abs
                       THEN File(TRUE, Collapse(<< >>, e.head.segs)) ELSE NoFile
             found == CoreScanFiles(e.files, temp)
         IN IF found.mesh # NoFile THEN found ELSE CoreScanEntries(Tail(entries))

RECURSIVE ClientScanFiles(_, _)
\* client: the loop over files; acc holds rel_mesh and abs_context.
ClientScanFiles(files, acc) ==
    IF files = << >> THEN acc
    ELSE LET f == Head(files) IN
         ClientScanFiles(Tail(files),
             IF f.abs THEN [acc EXCEPT !.context = f]
             ELSE IF HasMeshExtension(f) THEN [acc EXCEPT !.mesh = f]
             ELSE acc)

RECURSIVE ClientScanEntries(_, _)
\* client: the loop over potential_paths_data
ClientScanEntries(entries, acc) ==
    IF entries = << >> THEN acc
    ELSE LET next == ClientScanFiles(Head(entries).files, acc) IN
         IF next.context # NoFile /\ next.mesh # NoFile THEN next
         ELSE ClientScanEntries(Tail(entries), next)

\* _get_mesh_file_path_from_prim on a successful answer: the mesh file and
\* the context path it returns (NoMesh when it returns an error).
ScanAnswer(im, entries) ==
    IF im = "core" THEN CoreScanEntries(entries)
    ELSE LET r == ClientScanEntries(entries, NoMesh) IN
         IF r.mesh # NoFile THEN r ELSE NoMesh

Names(path) == {path[i].text : i \in {j \in 1 .. Len(path) : path[j].kind = "plain"}}

\* "/x/" in path_norm: x is a segment of the path, and not its last one
HasInner(path, names) ==
    \E i \in 1 .. Len(path) - 1 : path[i].kind = "plain" /\ path[i].text \in names

EndsWith(path, names) ==
    path # << >> /\ Last(path).kind = "plain" /\ Last(path).text \in names

IsShaderPath(path) == EndsWith(path, {"Shader"})

\* "/instances/inst_" in path_norm
HasInstance(path) ==
    \E i \in 2 .. Len(path) : path[i - 1] = Plain("instances") /\ path[i].kind = "inst"

\* "/PreviewSurface" in path_norm
HasPreviewSurface(path) == "PreviewSurface" \in Names(path)

CoreLooksLikeMaterial(path) ==
    /\ HasInner(path, {"Looks", "materials", "Material"})
    /\ ~EndsWith(path, {"Mesh"})
    /\ ~HasPreviewSurface(path)

ClientLooksLikeMaterial(path) ==
    /\ HasInner(path, {"Looks", "materials", "Material"})
    /\ ~HasPreviewSurface(path)

CoreLooksLikeMesh(path) ==
    \/ HasInstance(path) /\ EndsWith(path, {"mesh", "Mesh"})
    \/ HasInner(path, {"meshes", "Mesh", "Geom"})

ClientLooksLikeMesh(path) ==
    HasInstance(path) \/ HasInner(path, {"meshes", "Mesh", "Geom"})

NoPrims == [material |-> NoPath, mesh |-> NoPath]

RECURSIVE CoreIdentify(_, _)
\* core: the loop over asset_paths that picks material_prim and mesh_prim
CoreIdentify(paths, acc) ==
    IF paths = << >> THEN acc
    ELSE LET path == Head(paths) IN
         CoreIdentify(Tail(paths),
             IF IsShaderPath(path) /\ acc.material = NoPath
               THEN [acc EXCEPT !.material = Front(path)]
             ELSE IF CoreLooksLikeMaterial(path) /\ acc.material = NoPath
               THEN [acc EXCEPT !.material = path]
             ELSE IF CoreLooksLikeMesh(path) /\ acc.mesh = NoPath
               THEN [acc EXCEPT !.mesh = path]
             ELSE acc)

RECURSIVE ClientIdentify(_, _)
\* client: the loop over asset_paths
ClientIdentify(paths, acc) ==
    IF paths = << >> THEN acc
    ELSE LET path == Head(paths) IN
         ClientIdentify(Tail(paths),
             IF IsShaderPath(path)
               THEN [acc EXCEPT !.material = Front(path)]
             ELSE IF ClientLooksLikeMaterial(path) /\ acc.material = NoPath
               THEN [acc EXCEPT !.material = path]
             ELSE IF ClientLooksLikeMesh(path) /\ acc.mesh = NoPath
               THEN [acc EXCEPT !.mesh = path]
             ELSE acc)

Identify(im, paths) ==
    IF im = "core" THEN CoreIdentify(paths, NoPrims) ELSE ClientIdentify(paths, NoPrims)

PrimsToQueryMaterialFirst(im, material, mesh) ==
    <<material>> \o (IF mesh = NoPath \/ mesh = material THEN << >> ELSE <<mesh>>)

\* The prims whose file paths are queried, in order: the mesh prim, its
\* definition path if it differs, the material prim if not yet listed.
PrimsToQuery(im, material, mesh) ==
    LET def == IF mesh = NoPath THEN NoPath ELSE ExtractDefinitionPath(im, mesh)
        first == IF mesh = NoPath THEN << >> ELSE <<mesh>>
        second == IF def # NoPath /\ def # mesh THEN <<def>> ELSE << >>
        third == IF material \in {first[i] : i \in 1 .. Len(first)}
                       \cup {second[i] : i \in 1 .. Len(second)}
                   THEN << >> ELSE <<material>>
    IN first \o second \o third

ShaderM1 == <<Plain("World"), Plain("Looks"), Plain("M1"), Plain("Shader")>>

MaterialM1 == <<Plain("World"), Plain("Looks"), Plain("M1")>>

MaterialM2 == <<Plain("World"), Plain("Looks"), Plain("M2")>>

InstanceMesh ==
    <<Plain("RootNode"), Plain("instances"), Inst("ABCDEF0123456789", 12), Plain("mesh")>>

\* The definition of the mesh of InstanceMesh, selected itself.
DefinitionMesh == <<Plain("RootNode"), Plain("meshes"), Mesh("ABCDEF0123456789", NoNum)>>

\* Prim paths a selection may hold.
SelectionPool ==
    {ShaderM1, MaterialM2, InstanceMesh, DefinitionMesh, <<Plain("World"), Plain("Camera")>>}

CtxFile == File(TRUE, <<"abs", "ctx.usd">>)

RelMesh == File(FALSE, <<"relative", "mesh.usd">>)

UpMesh == File(FALSE, <<"..", "up", "mesh.usd">>)

AbsMesh == File(TRUE, <<"caps", "mesh.usd">>)

\* reference_paths of a successful file-paths answer
PathsAnswers ==
    { <<PairEntry(CtxFile, <<RelMesh>>)>>,
      <<ListEntry(<<CtxFile, RelMesh>>)>>,
      <<ListEntry(<<RelMesh, File(TRUE, <<"abs", "dir">>)>>)>>,
      <<PairEntry(File(FALSE, <<"World", "prim">>), <<File(FALSE, <<"tex.png">>)>>),
        StrEntry(UpMesh)>>,
      <<StrEntry(RelMesh)>>,
      <<StrEntry(AbsMesh)>>,
      << >> }

\* The project output directory of the default-directory answer.
ProjectOutputDir == File(TRUE, <<"proj", "assets", "out">>)

\* possible_bases of the fallback resolution, without repetitions
PossibleBases(out) ==
    LET base == Dirname(out)
        root == Dirname(base)
    IN <<File(TRUE, root.segs \o <<"deps", "captures">>), root, base, out>>

\* Files that may exist on disk when the pull resolves the mesh path.
DiskPool ==
    { File(TRUE, <<"abs", "relative", "mesh.usd">>),
      File(TRUE, <<"proj", "deps", "captures", "relative", "mesh.usd">>),
      File(TRUE, <<"proj", "assets", "relative", "mesh.usd">>) }

nonPullVars == <<httpVars, workerVars, batchVars, pushVars, defPathVars, selectVars, saveVars, uiVars, settingsVars, submitVars>>

\* The metadata "RTXRemixConnectorLink" of the open project: the three keys
\* the pull sets; an unset key reads as NoPath / NoFile.
Link(material, original, resolved) ==
    [material |-> material, original |-> original, resolved |-> resolved]

NoLink == Link(NoPath, NoFile, NoFile)

\* The link of a project pulled earlier.
OldLink == Link(MaterialM2, AbsMesh, AbsMesh)

\* The projects of the model: "old" was made before the pull, with or
\* without a link, and is open or not when the pull starts; "new" is the one
\* the pull creates.
ProjectIds == {"old", "new"}

InitialProjects == {<<"none", NoLink>>, <<"old", NoLink>>, <<"old", OldLink>>}

PullInit ==
    /\ qimpl \in Impls
    /\ \E p \in InitialProjects :
          /\ project = p[1]
          /\ links = [id \in ProjectIds |-> IF id = "old" THEN p[2] ELSE NoLink]
    /\ projectAtStart = project /\ linksAtStart = links
    /\ lastRun = <<"none", "">>
    /\ qpc = "start"
    /\ selection = << >> /\ materialPrim = NoPath /\ meshPrim = NoPath
    /\ toQuery = << >> /\ queried = << >> /\ pathsAnswer = << >>
    /\ meshFile = NoFile /\ contextPath = NoFile /\ resolvedPath = NoFile
    /\ rootsTried = << >> /\ pullRequests = << >> /\ pullError = ""
    /\ HttpIdle /\ WorkerIdle /\ BatchIdle /\ PushIdle /\ DefPathIdle /\ SelectIdle /\ SaveIdle /\ UiIdle /\ SettingsIdle /\ SubmitIdle

\* The pull ends with the message shown to the user ("" for none).
PullEnds(msg) == qpc' = "done" /\ pullError' = msg

SelectionRequest == "GET /stagecraft/assets/?selection"

MaterialRequest == "GET /stagecraft/assets/{mesh}/material"

FilePathsRequest == "GET /stagecraft/assets/{prim}/file-paths"

DefaultDirRequest == "GET /stagecraft/assets/default-directory"

\* Preconditions of handle_pull_from_remix, the selection query, the choice
\* of material and mesh prim and, for a mesh-only selection, the lookup of
\* the bound material.
PullSelect(pre, sel, mat) ==
    /\ qpc = "start"
    /\ pre = "Failed to close current project" => (qimpl = "core" /\ project # "none")
    /\ projectAtStart' = project
    /\ linksAtStart' = links
    /\ project' = IF qimpl = "core" /\ pre # "Failed to close current project"
                    THEN "none" ELSE project
    /\ UNCHANGED <<links, lastRun>>
    /\ IF qimpl = "core" /\ pre # "ok"
         THEN /\ PullEnds(pre)
              /\ UNCHANGED <<selection, materialPrim, meshPrim, toQuery, pullRequests>>
       ELSE IF ~sel.ok \/ sel.paths = << >>
         THEN /\ PullEnds(IF sel.ok THEN "No assets selected" ELSE "Selection Error")
              /\ pullRequests' = <<SelectionRequest>>
              /\ UNCHANGED <<selection, materialPrim, meshPrim, toQuery>>
       ELSE LET prims == Identify(qimpl, sel.paths)
                lookup == prims.material = NoPath /\ prims.mesh # NoPath
                material == IF lookup THEN mat ELSE prims.material
            IN /\ selection' = sel.paths
               /\ meshPrim' = prims.mesh
               /\ materialPrim' = material
               /\ pullRequests' = <<SelectionRequest>>
                                    \o (IF lookup THEN <<MaterialRequest>> ELSE << >>)
               /\ IF material = NoPath
                    THEN /\ PullEnds("No material identified")
                         /\ UNCHANGED toQuery
                    ELSE /\ toQuery' = PrimsToQuery(qimpl, material, prims.mesh)
                         /\ qpc' = "query"
                         /\ UNCHANGED pullError
    /\ UNCHANGED <<qimpl, queried, pathsAnswer, meshFile, contextPath, resolvedPath,
                   rootsTried>>
    /\ UNCHANGED nonPullVars

\* One file-paths query (_get_mesh_file_path_from_prim) on the next prim.
PullQueryPaths(ans) ==
    /\ qpc = "query"
    /\ toQuery # << >>
    /\ LET found == IF ans.ok THEN ScanAnswer(qimpl, ans.entries) ELSE NoMesh IN
       /\ queried' = Append(queried, Head(toQuery))
       /\ pathsAnswer' = ans.entries
       /\ pullRequests' = Append(pullRequests, FilePathsRequest)
       /\ toQuery' = Tail(toQuery)
       /\ IF found.mesh # NoFile
            THEN /\ meshFile' = found.mesh
                 /\ contextPath' = found.context
                 /\ IF qimpl = "core"
                      THEN qpc' = "resolve" /\ UNCHANGED pullError
                      ELSE PullEnds("")
            ELSE /\ UNCHANGED <<meshFile, contextPath>>
                 /\ IF Tail(toQuery) = << >>
                      THEN PullEnds("No mesh file path found")
                      ELSE UNCHANGED <<qpc, pullError>>
    /\ UNCHANGED <<qimpl, selection, materialPrim, meshPrim, resolvedPath, rootsTried>>
    /\ UNCHANGED <<project, links, projectAtStart, linksAtStart, lastRun>>
    /\ UNCHANGED nonPullVars

RECURSIVE FirstResolving(_, _, _)
\* The loop over unique_possible_bases: the bases tried and the path found.
FirstResolving(bases, rel, disk) ==
    IF bases = << >> THEN [tried |-> << >>, path |-> NoFile]
    ELSE IF JoinAbs(Head(bases), rel) \in disk
      THEN [tried |-> <<Head(bases)>>, path |-> JoinAbs(Head(bases), rel)]
    ELSE LET r == FirstResolving(Tail(bases), rel, disk) IN
         [tried |-> <<Head(bases)>> \o r.tried, path |-> r.path]

\* Strategy 2 of handle_pull_from_remix: the project directories
ProjectFallback(out, rel, disk) == FirstResolving(PossibleBases(out), rel, disk)

\* "Resolve relative mesh path" of handle_pull_from_remix, for the files on
\* disk and the answer of the default-directory query.
PullResolve(disk, dirOk) ==
    /\ qimpl = "core" /\ qpc = "resolve"
    /\ IF meshFile.abs
         THEN /\ resolvedPath' = File(TRUE, Collapse(<< >>, meshFile.segs))
              /\ qpc' = "create"
              /\ UNCHANGED <<rootsTried, pullRequests, pullError>>
         ELSE LET useContext == contextPath # NoFile /\ contextPath.abs
                  contextDir == Dirname(contextPath)
                  byContext == JoinAbs(contextDir, meshFile)
                  contextHit == useContext /\ byContext \in disk
                  fallback == ProjectFallback(ProjectOutputDir, meshFile, disk)
              IN IF contextHit
                   THEN /\ resolvedPath' = byContext
                        /\ rootsTried' = <<contextDir>>
                        /\ qpc' = "create"
                        /\ UNCHANGED <<pullRequests, pullError>>
                 ELSE IF ~dirOk
                   THEN /\ rootsTried' = IF useContext THEN <<contextDir>> ELSE << >>
                        /\ pullRequests' = Append(pullRequests, DefaultDirRequest)
                        /\ PullEnds("Cannot resolve relative mesh path")
                        /\ UNCHANGED resolvedPath
                 ELSE /\ rootsTried' = (IF useContext THEN <<contextDir>> ELSE << >>)
                                         \o fallback.tried
                      /\ pullRequests' = Append(pullRequests, DefaultDirRequest)
                      /\ resolvedPath' = fallback.path
                      /\ IF fallback.path = NoFile
                           THEN PullEnds("Could not resolve relative mesh path")
                           ELSE qpc' = "create" /\ UNCHANGED pullError
    /\ UNCHANGED <<qimpl, selection, materialPrim, meshPrim, toQuery, queried, pathsAnswer,
                   meshFile, contextPath>>
    /\ UNCHANGED <<project, links, projectAtStart, linksAtStart, lastRun>>
    /\ UNCHANGED nonPullVars

\* The link after the first `written` of the three metadata.set calls.
LinkWritten(written) ==
    Link(IF written >= 1 THEN materialPrim ELSE NoPath,
         IF written >= 2 THEN meshFile ELSE NoFile,
         IF written >= 3 THEN resolvedPath ELSE NoFile)

\* Project creation and the metadata link; with the outcome "Failed to
\* store Remix metadata" one of the three metadata.set calls raised after
\* `written` of them had returned.
PullCreate(outcome, written) ==
    /\ qimpl = "core" /\ qpc = "create"
    /\ outcome = "created" => written = 3
    /\ outcome = "Failed to store Remix metadata" => written < 3
    /\ PullEnds(IF outcome = "created" THEN "" ELSE outcome)
    /\ IF outcome = "Error creating Painter project"
         THEN UNCHANGED <<project, links>>
         ELSE project' = "new" /\ links' = [links EXCEPT !["new"] = LinkWritten(written)]
    /\ UNCHANGED <<qimpl, selection, materialPrim, meshPrim, toQuery, queried, pathsAnswer,
                   meshFile, contextPath, resolvedPath, rootsTried, pullRequests>>
    /\ UNCHANGED <<projectAtStart, linksAtStart, lastRun>>
    /\ UNCHANGED nonPullVars

\* What a push or an import finds when it reads the link of the open
\* project.
ReadLink ==
    IF project = "none" THEN "Project Error: No Painter project is currently open."
    ELSE IF links[project].material = NoPath THEN "Link Error"
    ELSE "linked"

PushRunRelinks ==
    /\ qpc \in {"start", "done"}
    /\ lastRun' = <<"push", ReadLink>>
    /\ links' = IF ReadLink = "linked"
                  THEN [links EXCEPT ![project].resolved = NoFile] ELSE links
    /\ UNCHANGED <<qimpl, qpc, selection, materialPrim, meshPrim, toQuery, queried,
                   pathsAnswer, meshFile, contextPath, resolvedPath, rootsTried,
                   pullRequests, pullError, project, projectAtStart, linksAtStart>>
    /\ UNCHANGED nonPullVars

\* A run of handle_push_to_remix while no pull is running, as far as the
\* project and its link go: it checks that a project is open and reads
\* remix_material_prim and remix_mesh_file_path_resolved.
PushRun ==
    /\ qpc \in {"start", "done"}
    /\ lastRun' = <<"push", ReadLink>>
    /\ UNCHANGED <<qimpl, qpc, selection, materialPrim, meshPrim, toQuery, queried,
                   pathsAnswer, meshFile, contextPath, resolvedPath, rootsTried,
                   pullRequests, pullError, project, links, projectAtStart, linksAtStart>>
    /\ UNCHANGED nonPullVars

\* A run of handle_import_textures, likewise: it reads remix_material_prim.
ImportRun ==
    /\ qpc \in {"start", "done"}
    /\ lastRun' = <<"import", ReadLink>>
    /\ UNCHANGED <<qimpl, qpc, selection, materialPrim, meshPrim, toQuery, queried,
                   pathsAnswer, meshFile, contextPath, resolvedPath, rootsTried,
                   pullRequests, pullError, project, links, projectAtStart, linksAtStart>>
    /\ UNCHANGED nonPullVars

\* The asset_paths of the selection answer: each selected prim once.
Selections ==
    {sel \in SeqsUpTo(SelectionPool, MaxSelection) :
        \A i, j \in 1 .. Len(sel) : sel[i] = sel[j] => i = j}

SelectionAnswers ==
    [ok : {TRUE}, paths : Selections] \cup [ok : {FALSE}, paths : {<< >>}]

\* The material the remote names for a mesh (NoPath for none); it may name
\* a prim that is queried as the mesh's definition as well.
MaterialAnswers == {MaterialM1, DefinitionMesh, NoPath}

FilePathsAnswers ==
    [ok : {TRUE}, entries : PathsAnswers] \cup [ok : {FALSE}, entries : {<< >>}]

PullNext ==
    \/ \E pre \in {"ok", "Failed to close current project", "requests library is missing"},
          sel \in SelectionAnswers, mat \in MaterialAnswers : PullSelect(pre, sel, mat)
    \/ \E ans \in FilePathsAnswers : PullQueryPaths(ans)
    \/ \E disk \in SUBSET DiskPool, dirOk \in BOOLEAN : PullResolve(disk, dirOk)
    \/ \E outcome \in {"created", "Error creating Painter project",
                       "Failed to store Remix metadata"}, written \in 0 .. 3 :
          PullCreate(outcome, written)
    \/ PushRun
    \/ ImportRun

PullSpec == PullInit /\ [][PullNext]_vars

(***************************************************************************)
(* Properties of the pull                                                  *)
(***************************************************************************)
PathsFound == qpc \in {"resolve", "create"} \/ (qpc = "done" /\ meshFile # NoFile)

\* Scenario A: the selection is the shader of M1 and the file-paths query
\* on M1 answered [["/abs/ctx.usd", ["relative/mesh.usd"]]].
ScenarioA ==
    /\ selection = <<ShaderM1>>
    /\ queried = <<MaterialM1>>
    /\ pathsAnswer = <<PairEntry(CtxFile, <<RelMesh>>)>>

\* C11: in scenario A the material is /World/Looks/M1, the context is
\* /abs/ctx.usd, and a resolved mesh path is /abs/relative/mesh.usd.
C11_ScenarioA ==
    (ScenarioA /\ qpc \in {"resolve", "create", "done"}) =>
        /\ materialPrim = MaterialM1
        /\ meshFile = RelMesh
        /\ contextPath = CtxFile
        /\ resolvedPath \in {NoFile, File(TRUE, <<"abs", "relative", "mesh.usd">>)}

ContextDirs == IF contextPath # NoFile THEN {Dirname(contextPath)} ELSE {}

\* C16: a relative mesh path is joined to the directory of the context path
\* only: no other directory is tried, and a pull whose mesh path was
\* resolved holds the join with the context directory.
C16_OnlyContextRoot ==
    (qimpl = "core" /\ ~meshFile.abs) =>
        /\ \A i \in 1 .. Len(rootsTried) : rootsTried[i] \in ContextDirs
        /\ resolvedPath # NoFile =>
              (contextPath # NoFile /\ resolvedPath = JoinAbs(Dirname(contextPath), meshFile))

\* The messages of a pull that failed at resolution.
ResolutionFailures ==
    {"Selection Error", "No assets selected", "No material identified",
     "No mesh file path found", "Cannot resolve relative mesh path",
     "Could not resolve relative mesh path"}

\* C25: a pull that failed at resolution has changed nothing: the project
\* that was open when it started is still open, with the link it had.
C25_FailedPullChangesNothing ==
    (qpc = "done" /\ pullError \in ResolutionFailures) =>
        (project = projectAtStart /\ links = linksAtStart)

Outcome(verdict) ==
    IF verdict = "Push Successful!" THEN "Success"
    ELSE IF verdict \in {"Push Failed! (Export Error)",
                         "Push Failed! (File Suffix Mapping Error)",
                         "Push Failed! (Ingest Error)",
                         "Push Failed! (Attribute Lookup/Mapping Error)",
                         "Push Failed! (Update Error)",
                         "Push Failed! (Update Submission Error)"} THEN "Failed"
    ELSE "Partial"

\* Scenario B: albedo and normal were exported, albedo was ingested and the
\* ingest of normal returned an error.
ScenarioB ==
    /\ PbrTypesOf(exportedMap) = <<"albedo", "normal">>
    /\ PbrTypesOf(ingestedMap) = <<"albedo">>
    /\ HasError("Ingest-normal")

\* C12: a finished run of scenario B went through discovery and commit,
\* reports ingested = 1 and mapped <= 1, sent at most the albedo binding,
\* and is classified Partial.
C12_ScenarioBPartial ==
    (PushDone /\ ScenarioB) =>
        /\ commitOutcome # "none"
        /\ summaries[1].ingested = 1
        /\ summaries[1].mapped <= 1
        /\ \A i \in PutRequests :
              /\ Len(requestLog[i].textures) <= 1
              /\ \A k \in 1 .. Len(requestLog[i].textures) :
                    requestLog[i].textures[k].path = ForwardSlashes(ingestedMap[1].path)
        /\ Outcome(summaries[1].verdict) = "Partial"

SaveRequests ==
    {i \in 1 .. Len(requestLog) :
        requestLog[i].endpoint \in {"/stagecraft/layers/target", "/stagecraft/layers/{id}/save"}}

SaveFailed == HasError("SaveLayer-GetTarget") \/ HasError("SaveLayer-Request")

\* C17: a request of the layer save (the target query or the save itself)
\* is sent only after a PUT with at least one binding that was accepted,
\* never after a failed or skipped commit; and after a failed save the run
\* still reports every binding of that PUT as committed.
C17_SaveOnlyAfterAcceptedCommit ==
    /\ (saveRequested \/ SaveRequests # {}) =>
          /\ commitOutcome = "accepted"
          /\ \A i \in SaveRequests :
                \E j \in PutRequests : j < i /\ requestLog[j].textures # << >>
    /\ (PushDone /\ SaveFailed) =>
          /\ updatedTypes = PbrTypesOf(mappedAttrs)
          /\ \A j \in PutRequests : summaries[1].committed = Len(requestLog[j].textures)
          /\ summaries[1].committed > 0

\* A run whose commit was accepted and whose save request failed.
C17_WitnessSaveFailed ==
    /\ PushDone /\ saveRequested /\ HasError("SaveLayer-Request")
    /\ commitOutcome = "accepted" /\ summaries[1].committed = 2

AbortMessages == PrepareFailures \cup {"Export Failed", "Mapping Failed: Mapping Error",
                                       "Ingest Error", "OSError", "ValueError"}

\* The entries of all_errors written by the outer exception handler.
AbortErrors ==
    {i \in 1 .. Len(allErrors) : \E m \in AbortMessages : allErrors[i] = ProcessError(m)}

\* C18: a run is stopped before its remaining stages only because the
\* export failed, no exported file maps to a PBR type, or nothing was
\* ingested.
C18_OnlyThreeAborts ==
    \A i \in AbortErrors :
        allErrors[i] \in {ProcessError("Export Failed"),
                          ProcessError("Mapping Failed: Mapping Error"),
                          ProcessError("Ingest Error")}

\* C19: a finished run is classified Success exactly if something was
\* exported and all of it was ingested, mapped and committed; it is
\* classified Failed only if the run was stopped early.
C19_Classification ==
    PushDone =>
        LET s == summaries[1] IN
        /\ Outcome(s.verdict) = "Success" <=>
              (s.exported > 0 /\ s.ingested = s.exported /\ s.mapped = s.exported
                 /\ s.committed = s.exported)
        /\ Outcome(s.verdict) = "Failed" => AbortErrors # {}

\* A path the classification may take as the material: one ending in
\* /Shader, or one under /Looks/, /materials/ or /Material/.
IsMaterialCandidate(im, path) ==
    \/ IsShaderPath(path)
    \/ IF im = "core" THEN CoreLooksLikeMaterial(path) ELSE ClientLooksLikeMaterial(path)

MaterialOfCandidate(path) == IF IsShaderPath(path) THEN Front(path) ELSE path

FirstMaterialCandidate(im, paths) ==
    LET i == CHOOSE j \in 1 .. Len(paths) :
                 /\ IsMaterialCandidate(im, paths[j])
                 /\ \A k \in 1 .. j - 1 : ~IsMaterialCandidate(im, paths[k])
    IN MaterialOfCandidate(paths[i])

\* C29: the material chosen from a selection is that of its first material
\* candidate (the path itself, or the parent of a path ending in /Shader),
\* and a material or mesh chosen from a prefix of the selection is not
\* replaced by a later path.
C29_FirstMatchWins ==
    (qpc # "start" /\ selection # << >>) =>
        /\ (\E j \in 1 .. Len(selection) : IsMaterialCandidate(qimpl, selection[j]))
              => materialPrim = FirstMaterialCandidate(qimpl, selection)
        /\ \A k \in 1 .. Len(selection) :
              LET early == Identify(qimpl, SubSeq(selection, 1, k)) IN
              /\ early.material # NoPath => materialPrim = early.material
              /\ early.mesh # NoPath => meshPrim = early.mesh

\* The place of a prim path in the order of the file-path queries: 1 for
\* the mesh prim, 2 for its derived definition path, 3 for the material
\* prim, 4 for any other path.
QueryRank(p) ==
    IF meshPrim # NoPath /\ p = meshPrim THEN 1
    ELSE IF meshPrim # NoPath /\ p = ExtractDefinitionPath(qimpl, meshPrim) THEN 2
    ELSE IF p = materialPrim THEN 3
    ELSE 4

QueryCandidates ==
    {meshPrim, ExtractDefinitionPath(qimpl, meshPrim), materialPrim} \ {NoPath}

QueriesInOrder ==
    /\ \A i \in 1 .. Len(queried) :
          /\ QueryRank(queried[i]) <= 3
          /\ \A c \in QueryCandidates :
                QueryRank(c) < QueryRank(queried[i])
                   => \E j \in 1 .. i - 1 : queried[j] = c
    /\ \A i, j \in 1 .. Len(queried) :
          i < j => QueryRank(queried[i]) < QueryRank(queried[j])

EntryPaths(e) ==
    (IF e.shape = "pair" THEN {e.head} ELSE {})
       \cup {e.files[i] : i \in 1 .. Len(e.files)}

EntryMeshFiles(e) == {e.files[i] : i \in {j \in 1 .. Len(e.files) : HasMeshExtension(e.files[j])}}

\* C32: after a file-paths query, an answer with a mesh file in an entry of
\* any of the three shapes has given a mesh file reference, and when the
\* entry that mesh file came from holds an absolute path, that path is the
\* context returned with it.
C32_ContextFromEntry ==
    queried # << >> =>
        /\ (\E i \in 1 .. Len(pathsAnswer) : EntryMeshFiles(pathsAnswer[i]) # {})
              => meshFile # NoFile
        /\ meshFile # NoFile =>
              \E i \in 1 .. Len(pathsAnswer) :
                 LET e == pathsAnswer[i]
                     absolute == {a \in EntryPaths(e) : a.abs}
                 IN /\ meshFile \in EntryMeshFiles(e)
                    /\ absolute # {} =>
                          \E a \in absolute :
                             contextPath \in {a, File(TRUE, Collapse(<< >>, a.segs))}

(***************************************************************************)
(* Part 7.  The output path of an ingest job                               *)
(*   core.ingest_texture_to_remix   ("core")                               *)
(*   RemixAPIClient.ingest_texture  ("client")                             *)
(* A file name is the sequence of its '.'-separated parts.                 *)
(***************************************************************************)
MaxOutputs == 2

\* str.lower() on the name parts of the model
LowerPart(part) ==
    CASE part = "Foo" -> "foo"
      [] part = "DDS" -> "dds"
      [] part = "N" -> "n"
      [] OTHER -> part

LowerName(name) == [i \in 1 .. Len(name) |-> LowerPart(name[i])]

\* The parts that "[a-z]" matches with re.IGNORECASE.
IsLetter(part) == LowerPart(part) \in {"a", "n", "r", "m", "h", "e", "o"}

\* p.lower().endswith((".dds", ".rtex.dds"))
EndsWithDds(name) == Len(name) >= 2 /\ LowerPart(Last(name)) = "dds"

\* os.path.splitext(name)[0]
DropExt(name) == IF Len(name) >= 2 THEN Front(name) ELSE name

\* "if base.lower().endswith('.rtex'): base = os.path.splitext(base)[0]"
DropRtex(name) ==
    IF Len(name) >= 2 /\ LowerPart(Last(name)) = "rtex" THEN Front(name) ELSE name

\* original_base of the input file
OriginalBase(name) == DropRtex(DropExt(name))

\* _normalize_ingest_output_stem: (base_no_suffix, suffix_letter); the
\* letter is "" for None
NormalizeIngestOutputStem(name) ==
    LET base == DropRtex(DropExt(name)) IN
    IF Len(base) >= 2 /\ IsLetter(Last(base))
      THEN [stem |-> Front(base), letter |-> LowerPart(Last(base))]
      ELSE [stem |-> base, letter |-> ""]

\* expected_suffix; "" for None
ExpectedSuffix(pbr) ==
    CASE pbr = "albedo" -> "a" [] pbr = "normal" -> "n" [] pbr = "roughness" -> "r"
      [] pbr = "metallic" -> "m" [] pbr = "height" -> "h" [] pbr = "emissive" -> "e"
      [] pbr = "ao" -> "o" [] pbr = "opacity" -> "o" [] OTHER -> ""

NoName == << >>

RECURSIVE CoreSelectOutput(_)
\* core: the first output path that ends with .dds
CoreSelectOutput(paths) ==
    IF paths = << >> THEN NoName
    ELSE IF EndsWithDds(Head(paths)) THEN Head(paths)
    ELSE CoreSelectOutput(Tail(paths))

StemMatches(name, base) ==
    LowerName(NormalizeIngestOutputStem(name).stem) = LowerName(base)

RECURSIVE ClientSelectOutput(_, _, _, _)
\* client: the loop over output_paths; fallback is fallback_match
ClientSelectOutput(paths, base, expected, fallback) ==
    IF paths = << >> THEN fallback
    ELSE LET name == Head(paths) IN
         IF ~EndsWithDds(name) \/ ~StemMatches(name, base)
           THEN ClientSelectOutput(Tail(paths), base, expected, fallback)
         ELSE IF expected = "" \/ NormalizeIngestOutputStem(name).letter = expected
           THEN name
         ELSE ClientSelectOutput(Tail(paths), base, expected,
                                 IF fallback = NoName THEN name ELSE fallback)

\* ingested_path as selected from the output paths of the job result
SelectOutput(im, pbr, file, paths) ==
    IF im = "core" THEN CoreSelectOutput(paths)
    ELSE ClientSelectOutput(paths, OriginalBase(file), ExpectedSuffix(pbr), NoName)

InputPool == { <<"foo", "png">>, <<"Foo", "png">> }

OutputPool ==
    { <<"foo", "n", "rtex", "dds">>, <<"foo", "a", "rtex", "dds">>, <<"Foo", "N", "DDS">>,
      <<"foo", "dds">>, <<"bar", "n", "rtex", "dds">>, <<"foo", "n", "png">> }

\* What an ingest returns: (path, None) or (None, error).
IngestReturn(path, error) == [path |-> path, error |-> error]

\* core: the selected path is normalised and returned; no call looks at the
\* disk
CoreIngestReturn(selected, disk) ==
    IF selected = NoName
      THEN IngestReturn(NoName, "Ingest succeeded but no output path found in response.")
      ELSE IngestReturn(selected, "None")

\* client: "if not os.path.isfile(final_path): return None, f'File missing: ...'"
ClientIngestReturn(selected, disk) ==
    IF selected = NoName
      THEN IngestReturn(NoName, "Could not identify output path from API response.")
    ELSE IF selected \notin disk THEN IngestReturn(NoName, "File missing")
    ELSE IngestReturn(selected, "None")

SelectInit ==
    /\ simpl \in Impls
    /\ sPbr \in {"albedo", "normal"}
    /\ textureFile \in InputPool
    /\ outputPaths \in SeqsUpTo(OutputPool, MaxOutputs)
    /\ spc = "answered"
    /\ ingestedPath = NoName
    /\ onDisk \in SUBSET {outputPaths[i] : i \in 1 .. Len(outputPaths)}
    /\ ingestReturn = IngestReturn(NoName, "None")
    /\ HttpIdle /\ WorkerIdle /\ BatchIdle /\ PushIdle /\ DefPathIdle /\ PullIdle /\ SaveIdle /\ UiIdle /\ SettingsIdle /\ SubmitIdle

nonSelectVars == <<httpVars, workerVars, batchVars, pushVars, defPathVars, pullVars, saveVars, uiVars, settingsVars, submitVars>>

\* The rest of an ingest after a successful job result: the output path is
\* selected, resolved and returned.
SelectIngested ==
    /\ spc = "answered"
    /\ ingestedPath' = SelectOutput(simpl, sPbr, textureFile, outputPaths)
    /\ ingestReturn' = IF simpl = "core" THEN CoreIngestReturn(ingestedPath', onDisk)
                       ELSE ClientIngestReturn(ingestedPath', onDisk)
    /\ spc' = "done"
    /\ UNCHANGED <<simpl, sPbr, textureFile, outputPaths, onDisk>>
    /\ UNCHANGED nonSelectVars

SelectNext == SelectIngested

SelectSpec == SelectInit /\ [][SelectNext]_vars

OutputNames == {outputPaths[i] : i \in 1 .. Len(outputPaths)}

\* C14: the selected output path has the stem of the input file (without
\* case) once .rtex.dds/.dds and a single-letter channel suffix are
\* stripped, and it carries the suffix expected for the PBR type whenever
\* some output path with the stem of the input does.
C14_SelectedStemMatches ==
    (spc = "done" /\ ingestedPath # NoName) =>
        /\ StemMatches(ingestedPath, OriginalBase(textureFile))
        /\ (\E name \in OutputNames :
               /\ EndsWithDds(name) /\ StemMatches(name, OriginalBase(textureFile))
               /\ NormalizeIngestOutputStem(name).letter = ExpectedSuffix(sPbr))
             => NormalizeIngestOutputStem(ingestedPath).letter = ExpectedSuffix(sPbr)

\* C24: an ingest returns a path only if the path names a file on disk;
\* when the job succeeded but the file is absent it returns an error and no
\* path.
C24_ReturnedPathExists ==
    spc = "done" =>
        /\ ingestReturn.path # NoName => ingestReturn.path \in onDisk
        /\ (ingestedPath # NoName /\ ingestedPath \notin onDisk)
             => (ingestReturn.path = NoName /\ ingestReturn.error # "None")

(***************************************************************************)
(* Part 8.  Saving the layer                                               *)
(*   core.save_remix_layer       ("core")                                  *)
(*   RemixAPIClient.save_layer   ("client")                                *)
(* Neither function reads or writes any field of the client: what a call   *)
(* returns is a function of its argument and of the answers it gets.       *)
(***************************************************************************)
MaxSaves == 2

\* urllib.parse.quote(path.replace(os.sep, '/'), safe=':/')
Quote(path) ==
    CASE path = "/proj/my mod.usda" -> "/proj/my%20mod.usda"
      [] OTHER -> path

\* os.path.normpath(layer_id.replace('\\', '/'))
NormLayer(path) ==
    CASE path = "/proj//mod.usda" -> "/proj/mod.usda"
      [] path = "\\proj\\mod.usda" -> "/proj/mod.usda"
      [] OTHER -> path

\* layer_id.strip()
Strip(text) == IF text = " " THEN "" ELSE text

SaveUrl(layer) == <<"POST", "/stagecraft/layers/", Quote(layer), "/save">>

\* The statuses the final answer of a request can carry; 0 stands for a
\* request that never got an answer.
SaveStatuses == {0, 200, 204, 500}

\* The layer ids a target or project answer can carry; "" stands for a
\* failed request or an answer without layer_id.
AnsweredLayers == {"", " ", "/proj/mod.usda", "/proj//mod.usda", "/proj/my mod.usda"}

LayerIds == {"", "/proj/mod.usda", "/proj/my mod.usda"}

\* core.save_remix_layer: [ok, requests]
SaveRemixLayer(layer, status) ==
    IF layer = "" THEN [ok |-> FALSE, requests |-> << >>]
    ELSE [ok |-> IsSuccessStatus(status) /\ 200 <= status /\ status < 300,
          requests |-> << [url |-> SaveUrl(layer), status |-> status] >>]

\* RemixAPIClient.get_current_edit_target: [layer, requests]; layer "" is
\* (None, "Could not determine edit layer.")
ClientGetCurrentEditTarget(target, projectAnswer) ==
    LET first == << [url |-> <<"GET", "/stagecraft/layers/target">>, layer |-> target] >>
        asked == IF target = ""
                   THEN first \o << [url |-> <<"GET", "/stagecraft/project/">>,
                                     layer |-> projectAnswer] >>
                   ELSE first
        id == IF target = "" THEN projectAnswer ELSE target
    IN  [layer |-> IF Strip(id) # "" THEN NormLayer(id) ELSE "", requests |-> asked]

ClientSaveLayerGivenId(layer, target, projectAnswer, status) ==
    IF layer = "" THEN [ok |-> FALSE, requests |-> << >>]
    ELSE LET current == ClientGetCurrentEditTarget(target, projectAnswer) IN
         IF current.layer = "" THEN [ok |-> FALSE, requests |-> current.requests]
         ELSE [ok |-> IsSuccessStatus(status),
               requests |-> current.requests
                            \o << [url |-> SaveUrl(layer), status |-> status] >>]

\* RemixAPIClient.save_layer: [ok, requests]
ClientSaveLayer(layer, target, projectAnswer, status) ==
    IF layer = "" THEN [ok |-> FALSE, requests |-> << >>]
    ELSE LET current == ClientGetCurrentEditTarget(target, projectAnswer) IN
         IF current.layer = "" THEN [ok |-> FALSE, requests |-> current.requests]
         ELSE [ok |-> IsSuccessStatus(status),
               requests |-> current.requests
                            \o << [url |-> SaveUrl(current.layer), status |-> status] >>]

SaveInit ==
    /\ vimpl \in Impls
    /\ layerId \in LayerIds
    /\ saveResults = << >>
    /\ saveLog = << >>
    /\ HttpIdle /\ WorkerIdle /\ BatchIdle /\ PushIdle /\ DefPathIdle /\ PullIdle /\ SelectIdle /\ UiIdle /\ SettingsIdle /\ SubmitIdle

nonSaveVars == <<httpVars, workerVars, batchVars, pushVars, defPathVars, pullVars, selectVars, uiVars, settingsVars, submitVars>>

\* One call of the save for layerId.
SaveLayer(target, projectAnswer, status) ==
    /\ Len(saveResults) < MaxSaves
    /\ LET r == IF vimpl = "core" THEN SaveRemixLayer(layerId, status)
                ELSE ClientSaveLayer(layerId, target, projectAnswer, status)
       IN  /\ saveResults' = Append(saveResults, r.ok)
           /\ saveLog' = saveLog \o r.requests
    /\ UNCHANGED <<vimpl, layerId>>
    /\ UNCHANGED nonSaveVars

SaveNext ==
    \E target \in AnsweredLayers, projectAnswer \in AnsweredLayers, status \in SaveStatuses :
        SaveLayer(target, projectAnswer, status)

SaveSpec == SaveInit /\ [][SaveNext]_vars

IsSaveRequest(r) == r.url[1] = "POST"

SaveRequestsAccepted ==
    \A i \in 1 .. Len(saveLog) :
        IsSaveRequest(saveLog[i]) => (200 <= saveLog[i].status /\ saveLog[i].status < 300)

\* C15: two saves in a row for the same layer id both return ok = true
\* whenever the remote accepts every save request it gets.
C15_SaveTwiceOk ==
    (layerId # "" /\ Len(saveResults) = 2 /\ SaveRequestsAccepted) =>
        (saveResults[1] /\ saveResults[2])

\* The requests of a call, read from the log it extends: the lookups come
\* first, the first one to the layers endpoint, and the last lookup's
\* answer is the one the call goes by.
LookupsOf(reqs) == {i \in 1 .. Len(reqs) : ~IsSaveRequest(reqs[i])}

SavesOf(reqs) == {i \in 1 .. Len(reqs) : IsSaveRequest(reqs[i])}

LookedUp(reqs) ==
    LET last == CHOOSE i \in LookupsOf(reqs) : \A j \in LookupsOf(reqs) : j <= i
    IN  reqs[last].layer

SaveCallOfClient(given, reqs, ok) ==
    IF given = "" THEN reqs = << >> /\ ~ok
    ELSE /\ reqs # << >> /\ reqs[1].url = <<"GET", "/stagecraft/layers/target">>
         /\ \A i \in LookupsOf(reqs), j \in SavesOf(reqs) : i < j
         /\ IF Strip(LookedUp(reqs)) = ""
              THEN SavesOf(reqs) = {} /\ ~ok
              ELSE /\ SavesOf(reqs) = {Len(reqs)}
                   /\ reqs[Len(reqs)].url = SaveUrl(NormLayer(LookedUp(reqs)))
                   /\ ok <=> IsSuccessStatus(reqs[Len(reqs)].status)

\* C39: a call of RemixAPIClient.save_layer with a non-empty layer id looks
\* the edit target up and sends its one save request for the layer the
\* lookup returned, whatever id it was given; when the lookup yields no
\* layer it returns failure without a save request; with an empty layer id
\* it sends no request at all and returns failure.
C39_SavesLookedUpLayer ==
    [][(vimpl = "client" /\ saveResults' # saveResults) =>
          SaveCallOfClient(layerId,
                           SubSeq(saveLog', Len(saveLog) + 1, Len(saveLog')),
                           saveResults'[Len(saveResults')])]_vars

\* C39 witness: a call for one layer whose lookup fell back to the project
\* answer and whose save request went out for another layer.
C39_WitnessOtherLayer ==
    /\ vimpl = "client" /\ layerId = "/proj/mod.usda" /\ saveResults = <<TRUE>>
    /\ Len(saveLog) = 3 /\ saveLog[2].layer = "/proj/my mod.usda"
    /\ saveLog[3].url = SaveUrl("/proj/my mod.usda")

(***************************************************************************)
(* Part 9.  The menu actions and the thread that runs their handlers       *)
(*   start_plugin / close_plugin (src/__init__.py)                         *)
(* QAction(..., triggered=core.handle_x) connects the handler to the       *)
(* action's signal directly: the handler is called by the thread that      *)
(* triggers the action, which is the UI thread.  No Worker is created and  *)
(* nothing is handed to a thread pool anywhere in the plugin.              *)
(***************************************************************************)
MaxTriggers == 2

Pipelines == {"handle_pull_from_remix", "handle_import_textures", "handle_push_to_remix"}

Handlers == Pipelines \cup {"handle_settings"}

\* The blocking calls a handler makes, in order, by kind.
BlockingCalls(handler) ==
    CASE handler = "handle_pull_from_remix" -> <<"network", "filesystem">>
      [] handler = "handle_import_textures" -> <<"network", "filesystem", "subprocess">>
      [] handler = "handle_push_to_remix" -> <<"filesystem", "network", "network", "network">>
      [] OTHER -> << >>

UiInit ==
    /\ menuActions = {}
    /\ uiThread = InEventLoop
    /\ submitted = << >>
    /\ callLog = << >>
    /\ triggers = 0
    /\ HttpIdle /\ WorkerIdle /\ BatchIdle /\ PushIdle /\ DefPathIdle /\ PullIdle /\ SelectIdle /\ SaveIdle /\ SettingsIdle /\ SubmitIdle

nonUiVars == <<httpVars, workerVars, batchVars, pushVars, defPathVars, pullVars, selectVars, saveVars, settingsVars, submitVars>>

\* start_plugin: the four actions are created and added to the menu when
\* the core module, PySide and the ui module are there and no QAction
\* raises; otherwise the menu gets nothing.
StartPlugin(coreLoaded, pyside, ui, created) ==
    /\ uiThread = InEventLoop
    /\ menuActions = {}
    /\ menuActions' = IF coreLoaded /\ pyside /\ ui /\ created THEN Handlers ELSE {}
    /\ UNCHANGED <<uiThread, submitted, callLog, triggers>>
    /\ UNCHANGED nonUiVars

\* The user picks a menu entry: the triggered signal calls the handler on
\* the UI thread.
Trigger(handler) ==
    /\ uiThread = InEventLoop
    /\ handler \in menuActions
    /\ triggers < MaxTriggers
    /\ triggers' = triggers + 1
    /\ uiThread' = [handler |-> handler, next |-> 1]
    /\ UNCHANGED <<menuActions, submitted, callLog>>
    /\ UNCHANGED nonUiVars

\* The running handler makes its next blocking call and waits for it.
BlockingCall ==
    /\ uiThread # InEventLoop
    /\ uiThread.next <= Len(BlockingCalls(uiThread.handler))
    /\ callLog' = Append(callLog, [handler |-> uiThread.handler,
                                   kind |-> BlockingCalls(uiThread.handler)[uiThread.next],
                                   thread |-> "ui"])
    /\ uiThread' = [uiThread EXCEPT !.next = @ + 1]
    /\ UNCHANGED <<menuActions, submitted, triggers>>
    /\ UNCHANGED nonUiVars

\* The handler returns, at its end or early after an error, and the UI
\* thread is back in the event loop.
HandlerReturns ==
    /\ uiThread # InEventLoop
    /\ uiThread' = InEventLoop
    /\ UNCHANGED <<menuActions, submitted, callLog, triggers>>
    /\ UNCHANGED nonUiVars

\* close_plugin: the actions are removed from the menu.
ClosePlugin ==
    /\ uiThread = InEventLoop
    /\ menuActions # {}
    /\ menuActions' = {}
    /\ UNCHANGED <<uiThread, submitted, callLog, triggers>>
    /\ UNCHANGED nonUiVars

UiNext ==
    \/ \E coreLoaded \in BOOLEAN, pyside \in BOOLEAN, ui \in BOOLEAN, created \in BOOLEAN :
           StartPlugin(coreLoaded, pyside, ui, created)
    \/ \E handler \in Handlers : Trigger(handler)
    \/ BlockingCall
    \/ HandlerReturns
    \/ ClosePlugin

UiSpec == UiInit /\ [][UiNext]_vars

\* C20: no pipeline function runs on the UI thread: the UI thread is never
\* inside handle_pull_from_remix, handle_import_textures or
\* handle_push_to_remix, and none of their network, filesystem or
\* subprocess calls is made by it.
C20_PipelinesOffUiThread ==
    /\ uiThread.handler \notin Pipelines
    /\ \A i \in 1 .. Len(callLog) :
           callLog[i].handler \in Pipelines => callLog[i].thread # "ui"

(***************************************************************************)
(* Part 10.  The settings a run reads                                      *)
(*   core: the module's PLUGIN_SETTINGS dict, read at every request        *)
(*   client: self.settings_getter(), called at every request               *)
(* Both read the settings of the moment they are called; nothing copies    *)
(* the settings when a pull or a push starts.                              *)
(***************************************************************************)
MaxRunSteps == 2

BaseUrls == {"http://a:8011", "http://b:8011/"}

Subfolders == {"Textures/Ingested", "/Other/"}

SettingsValues == [api_base_url : BaseUrls, remix_output_subfolder : Subfolders]

\* base.rstrip('/')
RStripSlash(text) == IF text = "http://b:8011/" THEN "http://b:8011" ELSE text

\* subfolder.strip('/\\')
StripSlashes(text) == IF text = "/Other/" THEN "Other" ELSE text

\* full_url of a request, from the settings it reads
FullUrl(settings, endpoint) == <<RStripSlash(settings.api_base_url), "/", endpoint>>

\* target_ingest_dir_abs of an ingest, from the settings it reads
TargetIngestDir(settings, projectDir) ==
    <<projectDir, "/", StripSlashes(settings.remix_output_subfolder)>>

Endpoints == {"stagecraft/assets/", "ingestcraft/mass-validator/queue/material"}

SettingsInit ==
    /\ liveSettings \in SettingsValues
    /\ startSettings = liveSettings
    /\ running = FALSE
    /\ runSteps = 0
    /\ runLog = << >>
    /\ HttpIdle /\ WorkerIdle /\ BatchIdle /\ PushIdle /\ DefPathIdle /\ PullIdle /\ SelectIdle /\ SaveIdle /\ UiIdle /\ SubmitIdle

nonSettingsVars == <<httpVars, workerVars, batchVars, pushVars, defPathVars, pullVars, selectVars, saveVars, uiVars, submitVars>>

\* A pull or a push starts; startSettings records the settings of that
\* moment for the properties (the code keeps no such copy).
RunStarts ==
    /\ ~running
    /\ runLog = << >>
    /\ running' = TRUE
    /\ startSettings' = liveSettings
    /\ UNCHANGED <<liveSettings, runSteps, runLog>>
    /\ UNCHANGED nonSettingsVars

\* The run sends a request: the URL is built from the settings read now.
RunRequest(endpoint) ==
    /\ running
    /\ runSteps < MaxRunSteps
    /\ runSteps' = runSteps + 1
    /\ runLog' = Append(runLog, [kind |-> "url", value |-> FullUrl(liveSettings, endpoint)])
    /\ UNCHANGED <<liveSettings, startSettings, running>>
    /\ UNCHANGED nonSettingsVars

\* The run ingests a texture: the output directory is computed from the
\* settings read now.
RunIngestDir ==
    /\ running
    /\ runSteps < MaxRunSteps
    /\ runSteps' = runSteps + 1
    /\ runLog' = Append(runLog, [kind |-> "dir",
                                 value |-> TargetIngestDir(liveSettings, "/proj")])
    /\ UNCHANGED <<liveSettings, startSettings, running>>
    /\ UNCHANGED nonSettingsVars

\* The run returns.
RunEnds ==
    /\ running
    /\ running' = FALSE
    /\ UNCHANGED <<liveSettings, startSettings, runSteps, runLog>>
    /\ UNCHANGED nonSettingsVars

\* The settings are saved: the shared dict gets new values (what
\* settings_getter returns from now on).
SaveSettings(new) ==
    /\ new # liveSettings
    /\ liveSettings' = new
    /\ UNCHANGED <<startSettings, running, runSteps, runLog>>
    /\ UNCHANGED nonSettingsVars

SettingsNext ==
    \/ RunStarts
    \/ \E endpoint \in Endpoints : RunRequest(endpoint)
    \/ RunIngestDir
    \/ RunEnds
    \/ \E new \in SettingsValues : SaveSettings(new)

SettingsSpec == SettingsInit /\ [][SettingsNext]_vars

\* C21: every URL and every ingest directory of a run is computed from the
\* settings the run started with, whatever is saved while it runs.
C21_RunUsesStartSettings ==
    \A i \in 1 .. Len(runLog) :
        \/ /\ runLog[i].kind = "url"
           /\ \E endpoint \in Endpoints : runLog[i].value = FullUrl(startSettings, endpoint)
        \/ /\ runLog[i].kind = "dir"
           /\ runLog[i].value = TargetIngestDir(startSettings, "/proj")

(***************************************************************************)
(* Part 11.  The requests of one ingest call                               *)
(*   core.ingest_texture_to_remix with make_remix_request_with_retries     *)
(*   RemixAPIClient.ingest_texture with RemixAPIClient.make_request        *)
(* Both pass no `retries` argument: the loop runs with the default.        *)
(***************************************************************************)
\* retries=3 in the signature of both request functions
DefaultRetries == 3

\* The outcomes of one POST to /ingestcraft/mass-validator/queue/material.
PostOutcomes == {o \in Outcomes : o.kind = "response" => o.body = "json"}

EndsCallNever(im, o) == FALSE

\* The attempt returns from the request loop: a 2xx answer, and in core
\* also a 4xx answer; after any other outcome the loop goes on while an
\* attempt is left.
EndsCall(im, o) ==
    /\ o.kind = "response"
    /\ IsSuccessStatus(o.status) \/ (im = "core" /\ IsClientError(o.status))

SubmitInit ==
    /\ gimpl \in Impls
    /\ gpc = "called"
    /\ gPosts = << >>
    /\ gReturn = "none"
    /\ HttpIdle /\ WorkerIdle /\ BatchIdle /\ PushIdle /\ DefPathIdle /\ PullIdle /\ SelectIdle /\ SaveIdle /\ UiIdle /\ SettingsIdle

nonSubmitVars == <<httpVars, workerVars, batchVars, pushVars, defPathVars, pullVars, selectVars, saveVars, uiVars, settingsVars>>

\* The statements before the request: the source file and the output
\* directory are checked; the call returns an error or builds the payload.
SubmitPrepare(ok) ==
    /\ gpc = "called"
    /\ IF ok THEN gpc' = "post" /\ UNCHANGED gReturn
             ELSE gpc' = "done" /\ gReturn' = "error"
    /\ UNCHANGED <<gimpl, gPosts>>
    /\ UNCHANGED nonSubmitVars

\* One attempt of the request loop for the ingest POST.
SubmitPost(o) ==
    /\ gpc = "post"
    /\ Len(gPosts) < DefaultRetries
    /\ gPosts' = Append(gPosts, o)
    /\ gpc' = IF EndsCall(gimpl, o) \/ Len(gPosts') >= DefaultRetries THEN "parse" ELSE "post"
    /\ UNCHANGED <<gimpl, gReturn>>
    /\ UNCHANGED nonSubmitVars

\* The request has returned: a failed result is returned as an error, a
\* job result is searched for the output path; no other request is made.
SubmitParse(found) ==
    /\ gpc = "parse"
    /\ LET last == gPosts[Len(gPosts)] IN
       gReturn' = IF last.kind = "response" /\ IsSuccessStatus(last.status) /\ found
                    THEN "path" ELSE "error"
    /\ gpc' = "done"
    /\ UNCHANGED <<gimpl, gPosts>>
    /\ UNCHANGED nonSubmitVars

SubmitNext ==
    \/ \E ok \in BOOLEAN : SubmitPrepare(ok)
    \/ \E o \in PostOutcomes : SubmitPost(o)
    \/ \E found \in BOOLEAN : SubmitParse(found)

SubmitSpec == SubmitInit /\ [][SubmitNext]_vars

RequestReturned == gpc \in {"parse", "done"}

\* C35 as stated: an ingest call issues at most one POST to the ingest
\* endpoint, whatever the server answers.
C35_OnePostPerIngest == Len(gPosts) <= 1

\* C35 amended: an ingest call issues at most `retries` POSTs to the ingest
\* endpoint, a further one only after an attempt that got no 2xx answer,
\* and no request once the request call has returned.
C35_PostsBoundedNoPoll ==
    /\ [](/\ Len(gPosts) <= DefaultRetries
          /\ \A k \in 1 .. Len(gPosts) - 1 :
                ~(gPosts[k].kind = "response" /\ IsSuccessStatus(gPosts[k].status)))
    /\ [][RequestReturned => gPosts' = gPosts]_vars

\* C35 witness: the POST was sent three times, twice answered with 500 or
\* not at all, and the third was accepted.
C35_WitnessThreePosts ==
    /\ gpc = "done" /\ Len(gPosts) = 3 /\ gReturn = "path"
    /\ gPosts[1].kind = "response" /\ gPosts[1].status = 500
    /\ gPosts[2].kind = "Timeout"

====
